---------------------------- MODULE Spec2Model ----------------------------
(***************************************************************************)
(* Model of the Classic Arena automation of Dreamer:                       *)
(*   - OpponentScanner  (src/sequences/opponent_scanner.py)                *)
(*   - BattleSequence and ClassicArenaSequence                             *)
(*                      (src/sequences/battle_sequence.py)                 *)
(*   - TextRecognizer.find_all_team_powers  (src/text_recognition.py)      *)
(* The game client is the environment: every capture (OCR pass, template   *)
(* match, pixel classification) is an input chosen with \E, and every      *)
(* gesture (scroll drag, click, key press) is counted in a ghost variable. *)
(***************************************************************************)
EXTENDS Integers, Sequences, FiniteSets, TLC

(***************************************************************************)
(* Program constants and bounds of the model.                              *)
(***************************************************************************)
ARENA_MAX_SCROLL_ATTEMPTS == 6

ARENA_MAX_BATTLES == 20

\* Longest observation (rows recognised in one captured frame).
MaxVisible == 2

\* Largest physical extent of the game's list, in scroll steps.
MaxListLen == 8

\* Team-power values of registry entries.
Powers == {3000, 5000, 8000}

\* Team-power values OCR may report during a scan.
ScanPowers == {3000, 5000}

\* Physical extents of the game's list: one screen, or a long list.
ListLens == {0, MaxListLen}

\* The ghost gesture counters saturate here (never reached by the code).
GestureCap == 2 * ARENA_MAX_SCROLL_ATTEMPTS + 2

VARIABLES
    pc,                     \* position of the single thread of control
    \* --- OpponentScanner fields
    opponents,              \* scanner.opponents: the registry
    scroll_count,           \* scanner.scroll_count: tracked scroll index
    max_scroll_reached,     \* scanner.max_scroll_reached
    known_powers,           \* scanner.known_powers
    current_scroll_position,\* scanner.current_scroll_position: <<>> until assigned
    \* --- locals of run_full_scan
    last_bottom_powers,
    consecutive_empty_scans,
    up_i,                   \* iterations done of the return-to-top loop
    \* --- environment and ghost variables of a scan
    listLen,                \* physical extent of the list (scroll steps)
    physPos,                \* physical scroll offset of the list
    downGestures,           \* scroll-down drags issued since the scan began
    upGestures,             \* scroll-up drags issued since the scan began
    prevBand,               \* power set of the previous bottom-band capture
    dup,                    \* <<>> or <<record of the duplicate band>>
    sameSeen,               \* a capture reported a power already registered
    \* --- BattleSequence fields
    sorted_targets,
    current_target_index,   \* 0-based cursor into sorted_targets
    battles_completed,
    max_battles,
    list_valid,
    last_attack_result,     \* <<>> until run_attack_phase stores a result
    \* --- locals of attack_next_target / run_attack_phase
    result,
    \* --- environment and ghost variables of the attack phase
    stop_requested,         \* the operator's stop flag (main.py)
    args,                   \* <<>> or the arguments of the last prepare_targets
    tok,                    \* <<>> or what the last ensure_arena_tokens saw and did
    call,                   \* <<>> or the bookkeeping of the attack_next_target call
    \* --- ClassicArenaSequence.run: arguments, outcome, ghost variables
    mode,                   \* "continuous", "scan_only" or "single"
    effective_max_battles,  \* max_battles or ARENA_MAX_BATTLES
    ret,                    \* <<>> until run returns, then <<its value>>
    raised,                 \* an exception reached the handler of run
    scanned,                \* run_full_scan has been called in this run
    attacked,               \* attack_next_target has been called
    back_clicks,            \* <<>> or <<Back clicks of _navigate_home>>
    sample,                 \* <<>> or <<what check_needs_refresh read>>
    ending,                 \* why the run was told to end: "none", "no_tokens", "stopped"
    wedged,                 \* no capture of the run has matched anything yet
    cycle_log,              \* what the cycle did since its attack phase ended
    verify,                 \* <<>> or the record of a verify_list_unchanged call
    \* --- TextRecognizer.find_all_team_powers: what OCR read, what is returned
    image,                  \* <<>> or <<[matches, results] of the two OCR passes>>
    team_powers,            \* the list find_all_team_powers returns
    \* --- OpponentScanner.check_battle_available: its arguments, its result
    pixel_frame,            \* <<>> or <<[height, width, y_position, orange]>>
    availability,           \* <<>> or <<[value, orange, total] of the call>>
    \* --- the game
    game_rows               \* the rows a capture of the game's list can show

scanVars == <<opponents, scroll_count, max_scroll_reached, known_powers,
              last_bottom_powers, consecutive_empty_scans, up_i,
              listLen, physPos, downGestures, upGestures, prevBand, dup,
              sameSeen>>

battleVars == <<sorted_targets, current_target_index, battles_completed,
                max_battles, list_valid, last_attack_result, result,
                stop_requested, args, tok, call>>

\* What the attack phase never touches.
scanLocalVars == <<opponents, max_scroll_reached, known_powers,
                   last_bottom_powers, consecutive_empty_scans, up_i,
                   listLen, physPos, downGestures, upGestures, prevBand, dup,
                   sameSeen>>

\* What neither a scan nor an attack touches.
runGhost == <<mode, effective_max_battles, ret, raised, scanned, back_clicks,
              sample, wedged, cycle_log>>

runVars == <<runGhost, attacked, ending, verify>>

\* What only the perception functions checked on their own touch, and
\* what no step changes.
ocrVars == <<image, team_powers, pixel_frame, availability, game_rows>>

vars == <<pc, scanVars, current_scroll_position, battleVars, runVars,
          ocrVars>>

Max(a, b) == IF a >= b THEN a ELSE b

Min(a, b) == IF a <= b THEN a ELSE b

Range(s) == {s[i] : i \in 1..Len(s)}

(***************************************************************************)
(* Observations: what one capture + parse returns, a list of rows, each a  *)
(* power (find_all_team_powers) and the pixel classification of its button *)
(* (check_battle_available).                                               *)
(***************************************************************************)
Rows == [power : ScanPowers, available : BOOLEAN]

SeqsUpTo(S, n) == UNION {[1..k -> S] : k \in 0..n}

\* The captures of a list that shows the given rows.
ObservationsOf(rows) == SeqsUpTo(rows, MaxVisible)

Observations == ObservationsOf(Rows)

PowersOf(list) == {list[i].power : i \in 1..Len(list)}

\* scan_visible_opponents: tag every row with the tracked scroll index.
scan_visible_opponents(obs, sc) ==
    [i \in 1..Len(obs) |->
        [power |-> obs[i].power,
         scroll_position |-> sc,
         available |-> obs[i].available]]

\* add_opponents_with_dedup: the loop over new_opponents, left to right.
\* Returns the registry, the known powers and the number added.
RECURSIVE add_loop(_, _, _, _)
add_loop(new_opponents, opps, known, added) ==
    IF new_opponents = <<>>
    THEN [opponents |-> opps, known_powers |-> known, added_count |-> added]
    ELSE LET opp == Head(new_opponents)
         IN  IF opp.power \notin known
             THEN add_loop(Tail(new_opponents), Append(opps, opp),
                           known \cup {opp.power}, added + 1)
             ELSE add_loop(Tail(new_opponents), opps, known, added)

\* Variant: every row is appended, known or not.
add_opponents_no_dedup(new_opponents, opps, known) ==
    [opponents |-> opps \o new_opponents,
     known_powers |-> known \cup PowersOf(new_opponents),
     added_count |-> Len(new_opponents)]

add_opponents_with_dedup(new_opponents, opps, known) ==
    add_loop(new_opponents, opps, known, 0)

\* scroll_list: the tracked index after one drag.
scroll_list(direction, sc) ==
    IF direction = "down" THEN sc + 1 ELSE Max(0, sc - 1)

\* The game's list after one drag: it does not move past either end.
PhysAfter(direction, pos) ==
    IF direction = "down"
    THEN (IF pos < listLen THEN pos + 1 ELSE pos)
    ELSE Max(0, pos - 1)

Bump(n) == Min(n + 1, GestureCap)

\* while self.scroll_count < ARENA_MAX_SCROLL_ATTEMPTS
scroll_loop_continues(sc) == sc < ARENA_MAX_SCROLL_ATTEMPTS

\* Variant: an empty band is handled like any other band.
empty_scan_never(visible) == FALSE

\* if len(visible) == 0
empty_scan(visible) == Len(visible) = 0

\* if last_bottom_powers and current_powers == last_bottom_powers
end_of_list(last, current) == last # {} /\ current = last

\* self.scroll_count -= 1 (end of list met by the main loop)
after_end_of_list_keep(sc) == sc

after_end_of_list(sc) == sc - 1

\* Variant: a confirmed end of list rolls back one step.
after_confirmed_one(sc) == sc - 1

\* self.scroll_count -= 2 (end of list confirmed)
after_confirmed(sc) == sc - 2

\* self.scroll_count -= 1 (confirmation band differs)
after_unconfirmed_two(sc) == sc - 2

after_unconfirmed(sc) == sc - 1

RECURSIVE Iterate(_, _, _)
Iterate(F(_), x, n) == IF n = 0 THEN x ELSE Iterate(F, F(x), n - 1)

\* Ghost: this bottom-band capture repeats the previous one, non-empty.
\* Records the tracked index and the gesture count at the capture.
DupAfter(band, kind) ==
    IF band # {} /\ band = prevBand
    THEN <<[idx |-> scroll_count, kind |-> kind, gestures |-> downGestures]>>
    ELSE dup

(***************************************************************************)
(* run_full_scan                                                           *)
(***************************************************************************)
\* reset(), then the full-region capture at the top and its registration.
ScanTop ==
    /\ pc = "scan_start"
    /\ \E obs \in ObservationsOf(game_rows) :
        LET visible == scan_visible_opponents(obs, 0)
            r == add_opponents_with_dedup(visible, <<>>, {})
        IN  /\ opponents' = r.opponents
            /\ known_powers' = r.known_powers
            /\ sameSeen' = (Len(r.opponents) < Len(obs))
    /\ scroll_count' = 0
    /\ max_scroll_reached' = 0
    /\ last_bottom_powers' = {}
    /\ consecutive_empty_scans' = 0
    /\ up_i' = 0
    /\ downGestures' = 0
    /\ upGestures' = 0
    /\ prevBand' = {}
    /\ dup' = <<>>
    /\ pc' = "scan_loop"
    /\ UNCHANGED <<listLen, physPos, current_scroll_position>>
    /\ UNCHANGED <<battleVars, runVars>>
    /\ UNCHANGED ocrVars

\* while self.scroll_count < ARENA_MAX_SCROLL_ATTEMPTS: scroll_list('down')
ScanScrollDown ==
    /\ pc = "scan_loop"
    /\ scroll_loop_continues(scroll_count)
    /\ scroll_count' = scroll_list("down", scroll_count)
    /\ physPos' = PhysAfter("down", physPos)
    /\ downGestures' = Bump(downGestures)
    /\ pc' = "scan_band"
    /\ UNCHANGED <<opponents, max_scroll_reached, known_powers,
                   last_bottom_powers, consecutive_empty_scans, up_i, listLen,
                   upGestures, prevBand, dup, sameSeen,
                   current_scroll_position>>
    /\ UNCHANGED <<battleVars, runVars>>
    /\ UNCHANGED ocrVars

\* The loop condition fails: the ceiling ends the scan.
ScanCeiling ==
    /\ pc = "scan_loop"
    /\ ~scroll_loop_continues(scroll_count)
    /\ pc' = "scan_after_loop"
    /\ UNCHANGED <<scanVars, current_scroll_position>>
    /\ UNCHANGED <<battleVars, runVars>>
    /\ UNCHANGED ocrVars

\* The bottom-band capture of the main loop and everything up to the next
\* gesture.
ScanBand ==
    /\ pc = "scan_band"
    /\ \E obs \in ObservationsOf(game_rows) :
        LET visible == scan_visible_opponents(obs, scroll_count)
            current_powers == PowersOf(visible)
            r == add_opponents_with_dedup(visible, opponents, known_powers)
        IN  /\ prevBand' = current_powers
            /\ dup' = DupAfter(current_powers, "loop")
            /\ IF empty_scan(visible)
               THEN \* OCR miss: continue without end-detection
                    /\ consecutive_empty_scans' =
                          (IF consecutive_empty_scans + 1 >= 2
                           THEN 0 ELSE consecutive_empty_scans + 1)
                    /\ pc' = "scan_loop"
                    /\ UNCHANGED <<opponents, known_powers, scroll_count,
                                   max_scroll_reached, last_bottom_powers,
                                   sameSeen>>
               ELSE IF end_of_list(last_bottom_powers, current_powers)
               THEN \* end of list: the duplicate step does not count
                    /\ consecutive_empty_scans' = 0
                    /\ scroll_count' = after_end_of_list(scroll_count)
                    /\ pc' = "scan_after_loop"
                    /\ UNCHANGED <<opponents, known_powers,
                                   max_scroll_reached, last_bottom_powers,
                                   sameSeen>>
               ELSE /\ consecutive_empty_scans' = 0
                    /\ opponents' = r.opponents
                    /\ known_powers' = r.known_powers
                    /\ max_scroll_reached' =
                          (IF r.added_count > 0 THEN scroll_count
                           ELSE max_scroll_reached)
                    /\ last_bottom_powers' = current_powers
                    /\ sameSeen' = (sameSeen \/ r.added_count < Len(obs))
                    /\ pc' = (IF r.added_count = 0
                              THEN "scan_confirm_scroll" ELSE "scan_loop")
                    /\ UNCHANGED scroll_count
    /\ UNCHANGED <<up_i, listLen, physPos, downGestures, upGestures,
                   current_scroll_position>>
    /\ UNCHANGED <<battleVars, runVars>>
    /\ UNCHANGED ocrVars

\* if added == 0: one confirmation scroll
ScanConfirmScroll ==
    /\ pc = "scan_confirm_scroll"
    /\ scroll_count' = scroll_list("down", scroll_count)
    /\ physPos' = PhysAfter("down", physPos)
    /\ downGestures' = Bump(downGestures)
    /\ pc' = "scan_confirm_band"
    /\ UNCHANGED <<opponents, max_scroll_reached, known_powers,
                   last_bottom_powers, consecutive_empty_scans, up_i, listLen,
                   upGestures, prevBand, dup, sameSeen,
                   current_scroll_position>>
    /\ UNCHANGED <<battleVars, runVars>>
    /\ UNCHANGED ocrVars

\* The confirmation capture and its two outcomes.
ScanConfirmBand ==
    /\ pc = "scan_confirm_band"
    /\ \E obs \in ObservationsOf(game_rows) :
        LET visible == scan_visible_opponents(obs, scroll_count)
            confirm_powers == PowersOf(visible)
            r == add_opponents_with_dedup(visible, opponents, known_powers)
        IN  /\ prevBand' = confirm_powers
            /\ dup' = DupAfter(confirm_powers, "confirm")
            /\ IF confirm_powers = last_bottom_powers
               THEN \* end of list confirmed
                    /\ scroll_count' = after_confirmed(scroll_count)
                    /\ pc' = "scan_after_loop"
                    /\ UNCHANGED <<opponents, known_powers,
                                   max_scroll_reached, last_bottom_powers,
                                   sameSeen>>
               ELSE /\ scroll_count' = after_unconfirmed(scroll_count)
                    /\ opponents' = r.opponents
                    /\ known_powers' = r.known_powers
                    /\ max_scroll_reached' =
                          (IF r.added_count > 0
                           THEN after_unconfirmed(scroll_count)
                           ELSE max_scroll_reached)
                    /\ last_bottom_powers' = confirm_powers
                    /\ sameSeen' = (sameSeen \/ r.added_count < Len(obs))
                    /\ pc' = "scan_loop"
    /\ UNCHANGED <<consecutive_empty_scans, up_i, listLen, physPos,
                   downGestures, upGestures, current_scroll_position>>
    /\ UNCHANGED <<battleVars, runVars>>
    /\ UNCHANGED ocrVars

\* After the loop: clamp, publish max_scroll_reached.
ScanAfterLoop ==
    /\ pc = "scan_after_loop"
    /\ scroll_count' = Max(0, scroll_count)
    /\ max_scroll_reached' = Max(0, scroll_count)
    /\ up_i' = 0
    /\ pc' = "scan_return_top"
    /\ UNCHANGED <<opponents, known_powers, last_bottom_powers,
                   consecutive_empty_scans, listLen, physPos, downGestures,
                   upGestures, prevBand, dup, sameSeen,
                   current_scroll_position>>
    /\ UNCHANGED <<battleVars, runVars>>
    /\ UNCHANGED ocrVars

\* for _ in range(ARENA_MAX_SCROLL_ATTEMPTS): scroll_list('up'), then
\* self.scroll_count = 0; return self.opponents
ScanReturnToTop ==
    /\ pc = "scan_return_top"
    /\ up_i' = ARENA_MAX_SCROLL_ATTEMPTS
    /\ physPos' = Iterate(LAMBDA p : PhysAfter("up", p), physPos,
                          ARENA_MAX_SCROLL_ATTEMPTS)
    /\ upGestures' = Min(upGestures + ARENA_MAX_SCROLL_ATTEMPTS, GestureCap)
    /\ scroll_count' = 0
    /\ pc' = "scan_done"
    /\ UNCHANGED <<opponents, max_scroll_reached, known_powers,
                   last_bottom_powers, consecutive_empty_scans, listLen,
                   downGestures, prevBand, dup, sameSeen,
                   current_scroll_position>>
    /\ UNCHANGED <<battleVars, runVars>>
    /\ UNCHANGED ocrVars

\* No frame has been handed to the text recogniser.
OcrIdle ==
    /\ image = <<>>
    /\ team_powers = <<>>
    /\ pixel_frame = <<>>
    /\ availability = <<>>

\* BattleSequence.__init__
BattleInit ==
    /\ sorted_targets = <<>>
    /\ current_target_index = 0
    /\ battles_completed = 0
    /\ list_valid = TRUE
    /\ last_attack_result = <<>>
    /\ result = "none"
    /\ args = <<>>
    /\ tok = <<>>
    /\ call = <<>>

\* Nothing of a run has happened.
RunInit ==
    /\ ret = <<>>
    /\ raised = FALSE
    /\ scanned = FALSE
    /\ attacked = FALSE
    /\ back_clicks = <<>>
    /\ sample = <<>>
    /\ ending = "none"
    /\ wedged = TRUE
    /\ cycle_log = <<>>
    /\ verify = <<>>

InitScan ==
    /\ pc = "scan_start"
    /\ opponents = <<>>
    /\ scroll_count = 0
    /\ max_scroll_reached = 0
    /\ known_powers = {}
    /\ current_scroll_position = <<>>
    /\ last_bottom_powers = {}
    /\ consecutive_empty_scans = 0
    /\ up_i = 0
    /\ listLen \in ListLens
    /\ physPos = 0
    /\ downGestures = 0
    /\ upGestures = 0
    /\ prevBand = {}
    /\ dup = <<>>
    /\ sameSeen = FALSE
    /\ BattleInit
    /\ RunInit
    /\ OcrIdle
    /\ game_rows = Rows
    /\ mode = "continuous"
    /\ max_battles = ARENA_MAX_BATTLES
    /\ effective_max_battles = max_battles
    /\ stop_requested = FALSE

NextScan ==
    \/ ScanTop
    \/ ScanScrollDown
    \/ ScanCeiling
    \/ ScanBand
    \/ ScanConfirmScroll
    \/ ScanConfirmBand
    \/ ScanAfterLoop
    \/ ScanReturnToTop

SpecScan == InitScan /\ [][NextScan]_vars /\ WF_vars(NextScan)

(***************************************************************************)
(* BattleSequence.prepare_targets                                          *)
(***************************************************************************)
\* Arguments of prepare_targets: max_power is <<>> for None, else <<n>>.
MaxPowerInputs == {<<>>, <<0>>, <<4000>>, <<5000>>}

\* if max_power and max_power > 0
has_ceiling(max_power) ==
    max_power # <<>> /\ max_power[1] # 0 /\ max_power[1] > 0

\* key order of sorted(..., reverse=not weakest_first)
comes_before(a, b, weakest_first) ==
    IF weakest_first THEN a.power < b.power ELSE a.power > b.power

\* sorted() is stable: an element goes after every element it does not
\* strictly precede.
RECURSIVE insert_sorted(_, _, _)
insert_sorted(o, list, weakest_first) ==
    IF list = <<>> THEN <<o>>
    ELSE IF comes_before(o, Head(list), weakest_first)
         THEN <<o>> \o list
         ELSE <<Head(list)>> \o insert_sorted(o, Tail(list), weakest_first)

RECURSIVE sort_by_power(_, _, _)
sort_by_power(list, acc, weakest_first) ==
    IF list = <<>> THEN acc
    ELSE sort_by_power(Tail(list),
                       insert_sorted(Head(list), acc, weakest_first),
                       weakest_first)

\* Variant: the availability filter is missing.
prepare_targets_all(opps, weakest_first, max_power) ==
    LET filtered == IF has_ceiling(max_power)
                    THEN SelectSeq(opps, LAMBDA o : o.power <= max_power[1])
                    ELSE opps
    IN  sort_by_power(filtered, <<>>, weakest_first)

\* Variant: the power ceiling is compared strictly.
prepare_targets_strict(opps, weakest_first, max_power) ==
    LET available_opponents == SelectSeq(opps, LAMBDA o : o.available)
        filtered == IF has_ceiling(max_power)
                    THEN SelectSeq(available_opponents,
                                   LAMBDA o : o.power < max_power[1])
                    ELSE available_opponents
    IN  sort_by_power(filtered, <<>>, weakest_first)

prepare_targets(opps, weakest_first, max_power) ==
    LET available_opponents == SelectSeq(opps, LAMBDA o : o.available)
        filtered == IF has_ceiling(max_power)
                    THEN SelectSeq(available_opponents,
                                   LAMBDA o : o.power <= max_power[1])
                    ELSE available_opponents
    IN  sort_by_power(filtered, <<>>, weakest_first)

\* A call of prepare_targets: reset(), then the new Target List.
Prepare ==
    /\ pc = "prepare"
    /\ \E weakest_first \in BOOLEAN, max_power \in MaxPowerInputs :
        /\ sorted_targets' = prepare_targets(opponents, weakest_first, max_power)
        /\ args' = <<[weakest_first |-> weakest_first, max_power |-> max_power]>>
    /\ current_target_index' = 0
    /\ battles_completed' = 0
    /\ list_valid' = TRUE
    /\ pc' = "phase_start"
    /\ UNCHANGED <<runVars, scanLocalVars, scroll_count,
                   current_scroll_position,
                   max_battles, last_attack_result, result, stop_requested,
                   tok, call>>
    /\ UNCHANGED ocrVars

(***************************************************************************)
(* BattleSequence.ensure_arena_tokens                                      *)
(***************************************************************************)
\* The value returned for what the two find_template calls report.
token_result(found, found_free) ==
    IF ~found THEN "ok"
    ELSE IF found_free THEN "refilled"
    ELSE "no_tokens"

\* What one call observes and does.  found: the empty-token indicator;
\* found_free: find_template of the free refill; click_found: the search
\* that find_and_click makes on a capture of its own before it clicks.
token_record(found, found_free, click_found, sc) ==
    [found |-> found,
     found_free |-> found /\ found_free,
     plus_clicks |-> IF found THEN 1 ELSE 0,
     free_clicks |-> IF found /\ found_free /\ click_found THEN 1 ELSE 0,
     escapes |-> IF found /\ ~found_free THEN 1 ELSE 0,
     scroll_before |-> sc,
     status |-> token_result(found, found_free)]

\* The scanner after ensure_arena_tokens: the refill assigns
\* scanner.current_scroll_position, scroll_count is not written.
scanner_after_tokens(status, sc, csp) ==
    [scroll_count |-> sc,
     current_scroll_position |-> IF status = "refilled" THEN <<0>> ELSE csp]

TokenInputs ==
    {<<f, ff, cf>> : f \in BOOLEAN, ff \in BOOLEAN, cf \in BOOLEAN}

(***************************************************************************)
(* BattleSequence.navigate_to_target                                       *)
(***************************************************************************)
Abs(n) == IF n < 0 THEN -n ELSE n

\* Variant: a failed search goes round once more.
navigate_to_target_again(target_scroll, current_scroll, v1, v2, v3) ==
    LET n0 == Abs(target_scroll - current_scroll)
        sc0 == IF target_scroll < current_scroll
               THEN Iterate(LAMBDA c : scroll_list("up", c), current_scroll, n0)
               ELSE Iterate(LAMBDA c : scroll_list("down", c), current_scroll, n0)
        sc1 == scroll_list("down", sc0)
        sc2 == scroll_list("up", scroll_list("up", sc1))
        sc3 == scroll_list("down", sc2)
    IN  IF v1 THEN [found |-> TRUE, scroll_count |-> sc0, scrolls |-> n0,
                    checks |-> 1]
        ELSE IF v2 THEN [found |-> TRUE, scroll_count |-> sc1,
                         scrolls |-> n0 + 1, checks |-> 2]
        ELSE IF v3 THEN [found |-> TRUE, scroll_count |-> sc2,
                         scrolls |-> n0 + 3, checks |-> 3]
        ELSE [found |-> FALSE, scroll_count |-> sc3, scrolls |-> n0 + 8,
              checks |-> 6]

\* v1, v2, v3: what verify_opponent_at_position reports at the recorded
\* index, after one scroll down, after two scrolls up.
navigate_to_target(target_scroll, current_scroll, v1, v2, v3) ==
    LET n0 == Abs(target_scroll - current_scroll)
        sc0 == IF target_scroll < current_scroll
               THEN Iterate(LAMBDA c : scroll_list("up", c), current_scroll, n0)
               ELSE Iterate(LAMBDA c : scroll_list("down", c), current_scroll, n0)
        sc1 == scroll_list("down", sc0)
        sc2 == scroll_list("up", scroll_list("up", sc1))
        sc3 == scroll_list("down", sc2)
    IN  IF v1 THEN [found |-> TRUE, scroll_count |-> sc0, scrolls |-> n0,
                    checks |-> 1]
        ELSE IF v2 THEN [found |-> TRUE, scroll_count |-> sc1,
                         scrolls |-> n0 + 1, checks |-> 2]
        ELSE IF v3 THEN [found |-> TRUE, scroll_count |-> sc2,
                         scrolls |-> n0 + 3, checks |-> 3]
        ELSE [found |-> FALSE, scroll_count |-> sc3, scrolls |-> n0 + 4,
              checks |-> 3]

(***************************************************************************)
(* BattleSequence.attack_next_target                                       *)
(***************************************************************************)
\* click_return_arena(max_attempts=5)
RETURN_ARENA_MAX_ATTEMPTS == 5

CurrentTarget == sorted_targets[current_target_index + 1]

\* Variant: the battle ceiling is not looked at.
entry_result_no_max ==
    IF ~list_valid THEN "list_invalid"
    ELSE IF current_target_index >= Len(sorted_targets) THEN "no_more"
    ELSE "proceed"

\* Variant: the battle ceiling is looked at before the end of the list.
entry_result_max_first ==
    IF ~list_valid THEN "list_invalid"
    ELSE IF battles_completed >= max_battles THEN "max_reached"
    ELSE IF current_target_index >= Len(sorted_targets) THEN "no_more"
    ELSE "proceed"

\* Variant: the call looks at the stop flag first.
entry_result_stop_aware ==
    IF stop_requested THEN "stopped"
    ELSE IF ~list_valid THEN "list_invalid"
    ELSE IF current_target_index >= Len(sorted_targets) THEN "no_more"
    ELSE IF battles_completed >= max_battles THEN "max_reached"
    ELSE "proceed"

\* The guards at the top of attack_next_target.
entry_result ==
    IF ~list_valid THEN "list_invalid"
    ELSE IF current_target_index >= Len(sorted_targets) THEN "no_more"
    ELSE IF battles_completed >= max_battles THEN "max_reached"
    ELSE "proceed"

\* Variant: the caller ignores the token check.
returns_no_tokens_never(status) == FALSE

\* if token_status == 'no_tokens': return 'no_tokens'
returns_no_tokens(status) == status = "no_tokens"

NewCall ==
    <<[cursor |-> current_target_index,
       battles |-> battles_completed,
       scroll |-> scroll_count,
       token_checked |-> FALSE,
       target |-> <<>>,
       nav_scrolls |-> 0,
       nav_checks |-> 0,
       battle_frame |-> "none",
       return_attempts |-> 0,
       return_clicks |-> 0,
       clicks |-> 0]>>

\* attack_next_target is entered; the three early returns.
AttackEntry ==
    /\ pc = "attack_entry"
    /\ call' = NewCall
    /\ tok' = <<>>
    /\ attacked' = TRUE
    /\ IF entry_result = "proceed"
       THEN pc' = "attack_tokens" /\ result' = "none"
       ELSE pc' = "attack_ret" /\ result' = entry_result
    /\ UNCHANGED <<runGhost, ending, verify, scanLocalVars, scroll_count,
                   current_scroll_position,
                   sorted_targets, current_target_index, battles_completed,
                   max_battles, list_valid, last_attack_result,
                   stop_requested, args>>
    /\ UNCHANGED ocrVars

\* token_status = self.ensure_arena_tokens(); 'no_tokens' returns at once,
\* otherwise the target at the cursor is selected.
AttackTokens ==
    /\ pc = "attack_tokens"
    /\ \E in \in TokenInputs :
        LET t == token_record(in[1], in[2], in[3], scroll_count)
            sc == scanner_after_tokens(t.status, scroll_count,
                                       current_scroll_position)
        IN  /\ tok' = <<t>>
            /\ scroll_count' = sc.scroll_count
            /\ current_scroll_position' = sc.current_scroll_position
            /\ IF returns_no_tokens(t.status)
               THEN /\ result' = "no_tokens"
                    /\ pc' = "attack_ret"
                    /\ ending' = "no_tokens"
                    /\ call' = <<[call[1] EXCEPT !.token_checked = TRUE]>>
               ELSE /\ result' = "none"
                    /\ pc' = "attack_navigate"
                    /\ UNCHANGED ending
                    /\ call' = <<[call[1] EXCEPT !.token_checked = TRUE,
                                                 !.target = <<CurrentTarget>>]>>
    /\ UNCHANGED <<runGhost, attacked, verify, scanLocalVars,
                   sorted_targets, current_target_index,
                   battles_completed, max_battles, list_valid,
                   last_attack_result, stop_requested, args>>
    /\ UNCHANGED ocrVars

\* Variant: a failed step leaves the cursor on the target.
Skip_stay ==
    /\ current_target_index' = current_target_index
    /\ result' = "skip"
    /\ pc' = "attack_ret"

\* A step of attack_next_target that fails: the target is skipped.
Skip ==
    /\ current_target_index' = current_target_index + 1
    /\ result' = "skip"
    /\ pc' = "attack_ret"

\* if not self.navigate_to_target(target): skip
AttackNavigate ==
    /\ pc = "attack_navigate"
    /\ \E v1 \in BOOLEAN, v2 \in BOOLEAN, v3 \in BOOLEAN :
        LET n == navigate_to_target(CurrentTarget.scroll_position,
                                    scroll_count, v1, v2, v3)
        IN  /\ scroll_count' = n.scroll_count
            /\ call' = <<[call[1] EXCEPT !.nav_scrolls = n.scrolls,
                                         !.nav_checks = n.checks]>>
            /\ tok' = <<>>
            /\ IF n.found
               THEN /\ pc' = "attack_click_battle"
                    /\ UNCHANGED <<current_target_index, result>>
               ELSE Skip
    /\ UNCHANGED <<runVars, scanLocalVars, current_scroll_position,
                   sorted_targets,
                   battles_completed, max_battles, list_valid,
                   last_attack_result, stop_requested, args>>
    /\ UNCHANGED ocrVars

\* One template-driven or pixel-gated click of the attack: it is issued
\* when the capture allows it, otherwise the target is skipped.
ClickStep(here, next) ==
    /\ pc = here
    /\ \E ok \in BOOLEAN :
        IF ok
        THEN /\ call' = <<[call[1] EXCEPT !.clicks = @ + 1]>>
             /\ pc' = next
             /\ UNCHANGED <<current_target_index, result>>
        ELSE /\ Skip
             /\ UNCHANGED call
    /\ UNCHANGED <<runVars, scanLocalVars, scroll_count,
                   current_scroll_position,
                   sorted_targets, battles_completed, max_battles, list_valid,
                   last_attack_result, stop_requested, args, tok>>
    /\ UNCHANGED ocrVars

\* Variant: the click is issued without looking at the button's colour.
click_battle_button_unchecked(has_y, is_available) ==
    [clicked |-> has_y,
     frame |-> IF ~has_y THEN "none"
               ELSE IF is_available THEN "available" ELSE "unavailable"]

\* click_battle_button: with a y position, check_battle_available on a
\* fresh capture decides whether the click is issued.  frame is how that
\* capture classified the row ("none": no capture was made).
click_battle_button(has_y, is_available) ==
    [clicked |-> has_y /\ is_available,
     frame |-> IF ~has_y THEN "none"
               ELSE IF is_available THEN "available" ELSE "unavailable"]

\* if not self.click_battle_button(target_power, stored_y_position): skip.
\* The scanner stores a y position with every reading
\* (scan_visible_opponents), so the stored position is always there.
AttackClickBattle ==
    /\ pc = "attack_click_battle"
    /\ \E is_available \in BOOLEAN :
        LET b == click_battle_button(TRUE, is_available)
        IN  IF b.clicked
            THEN /\ call' = <<[call[1] EXCEPT !.clicks = @ + 1,
                                              !.battle_frame = b.frame]>>
                 /\ pc' = "attack_start_fight"
                 /\ UNCHANGED <<current_target_index, result>>
            ELSE /\ Skip
                 /\ call' = <<[call[1] EXCEPT !.battle_frame = b.frame]>>
    /\ UNCHANGED <<runVars, scanLocalVars, scroll_count,
                   current_scroll_position,
                   sorted_targets, battles_completed, max_battles, list_valid,
                   last_attack_result, stop_requested, args, tok>>
    /\ UNCHANGED ocrVars

\* click_start_fight
AttackStartFight == ClickStep("attack_start_fight", "attack_wait_complete")

\* wait_for_battle_complete: found and clicked within the timeout, or not.
AttackWaitComplete == ClickStep("attack_wait_complete", "attack_return_arena")

\* for attempt in range(max_attempts): find_and_click; return at the
\* first success.  found_at[i]: attempt i finds (and clicks) the button.
RECURSIVE return_arena_loop(_, _)
return_arena_loop(found_at, attempt) ==
    IF attempt > RETURN_ARENA_MAX_ATTEMPTS
    THEN [clicked |-> FALSE, attempts |-> RETURN_ARENA_MAX_ATTEMPTS,
          clicks |-> 0]
    ELSE IF found_at[attempt]
    THEN [clicked |-> TRUE, attempts |-> attempt, clicks |-> 1]
    ELSE return_arena_loop(found_at, attempt + 1)

\* Variant: the loop does not return at a success.
click_return_arena_no_stop(found_at) ==
    [clicked |-> \E i \in 1..RETURN_ARENA_MAX_ATTEMPTS : found_at[i],
     attempts |-> RETURN_ARENA_MAX_ATTEMPTS,
     clicks |-> Cardinality({i \in 1..RETURN_ARENA_MAX_ATTEMPTS :
                                found_at[i]})]

click_return_arena(found_at) == return_arena_loop(found_at, 1)

\* Variant: the tracked index is left where the navigation ended.
scroll_after_battle_keep(sc) == sc

\* self.scanner.scroll_count = 0 (the game shows the top of the list
\* after a battle)
scroll_after_battle(sc) == 0

\* click_return_arena, then the success bookkeeping.
AttackReturnArena ==
    /\ pc = "attack_return_arena"
    /\ \E found_at \in [1..RETURN_ARENA_MAX_ATTEMPTS -> BOOLEAN] :
        LET r == click_return_arena(found_at)
            c == [call[1] EXCEPT !.return_attempts = r.attempts,
                                 !.return_clicks = r.clicks,
                                 !.clicks = @ + r.clicks]
        IN  /\ call' = <<c>>
            /\ IF r.clicked
               THEN /\ scroll_count' = scroll_after_battle(scroll_count)
                    /\ current_target_index' = current_target_index + 1
                    /\ battles_completed' = battles_completed + 1
                    /\ result' = "success"
                    /\ pc' = "attack_ret"
               ELSE /\ Skip
                    /\ UNCHANGED <<scroll_count, battles_completed>>
    /\ UNCHANGED <<runVars, scanLocalVars, current_scroll_position,
                   sorted_targets,
                   max_battles, list_valid, last_attack_result, stop_requested,
                   args, tok>>
    /\ UNCHANGED ocrVars

(***************************************************************************)
(* BattleSequence.run_attack_phase(single_attack=False)                    *)
(***************************************************************************)
\* Variant: a skipped target ends the loop too.
PhaseEnding_with_skip ==
    {"no_more", "max_reached", "list_invalid", "no_tokens", "skip"}

\* if result in ('no_more', 'max_reached', 'list_invalid', 'no_tokens')
PhaseEnding == {"no_more", "max_reached", "list_invalid", "no_tokens"}

\* Variant: the single-attack flag is never passed.
single_attack_never(m) == FALSE

\* run_attack_phase(single_attack=True) is what the test mode calls.
single_attack(m) == m = "single"

\* Variant: the stop flag is never looked at.
should_stop_never == FALSE

\* should_stop(): the stop check reads the operator's flag.
should_stop == stop_requested

\* if not self.sorted_targets: return True
PhaseStart ==
    /\ pc = "phase_start"
    /\ pc' = IF sorted_targets = <<>> THEN "phase_done"
             ELSE IF single_attack(mode) THEN "attack_entry"
             ELSE "phase_loop"
    /\ args' = <<>>
    /\ UNCHANGED <<runVars, scanVars, current_scroll_position,
                   sorted_targets,
                   current_target_index, battles_completed, max_battles,
                   list_valid, last_attack_result, result, stop_requested,
                   tok, call>>
    /\ UNCHANGED ocrVars

\* The top of the loop: should_stop() is sampled, then the next attack.
PhaseLoop ==
    /\ pc = "phase_loop"
    /\ IF should_stop
       THEN /\ result' = "stopped"
            /\ last_attack_result' = <<"stopped">>
            /\ ending' = IF ending = "none" THEN "stopped" ELSE ending
            /\ pc' = "phase_done"
       ELSE /\ pc' = "attack_entry"
            /\ UNCHANGED <<result, last_attack_result, ending>>
    /\ verify' = <<>>
    /\ UNCHANGED <<runGhost, attacked, scanVars,
                   current_scroll_position, sorted_targets,
                   current_target_index, battles_completed, max_battles,
                   list_valid, stop_requested, args, tok, call>>
    /\ UNCHANGED ocrVars

\* attack_next_target has returned to the loop.
PhaseAfterAttack ==
    /\ pc = "attack_ret"
    /\ IF single_attack(mode) \/ result \in PhaseEnding
       THEN /\ last_attack_result' = <<result>>
            /\ pc' = "phase_done"
       ELSE /\ pc' = "phase_loop"
            /\ UNCHANGED last_attack_result
    /\ call' = <<>>
    /\ tok' = <<>>
    /\ UNCHANGED <<runVars, scanVars, current_scroll_position,
                   sorted_targets,
                   current_target_index, battles_completed, max_battles,
                   list_valid, result, stop_requested, args>>
    /\ UNCHANGED ocrVars

\* DreamerApp.request_stop: the operator sets the flag at any moment.
RequestStop ==
    /\ ~stop_requested
    /\ pc \notin {"prepare", "phase_done"}
    /\ stop_requested' = TRUE
    /\ UNCHANGED <<pc, runVars, scanVars, current_scroll_position,
                   sorted_targets,
                   current_target_index, battles_completed, max_battles,
                   list_valid, last_attack_result, result, args, tok, call>>
    /\ UNCHANGED ocrVars

(***************************************************************************)
(* The attack phase on a scanned registry.                                 *)
(***************************************************************************)
\* Scroll positions a registry entry may carry.
ScrollPositions == {0, 2}

Readings == [power : Powers, scroll_position : ScrollPositions,
             available : BOOLEAN]

\* What a scan can leave: one reading per power, in scroll order.
AllRegistries ==
    {r \in SeqsUpTo(Readings, Cardinality(Powers)) :
        /\ \A i, j \in 1..Len(r) : r[i].power = r[j].power => i = j
        /\ \A i, j \in 1..Len(r) :
              i < j => r[i].scroll_position <= r[j].scroll_position}

\* The game's list from top to bottom.
Roster == <<5000, 3000, 8000>>

RosterIndex(p) == CHOOSE i \in 1..Len(Roster) : Roster[i] = p

\* Registries of a scan that reads rows of the roster from top to bottom.
Registries ==
    {r \in AllRegistries :
        \A i, j \in 1..Len(r) :
            i < j => RosterIndex(r[i].power) < RosterIndex(r[j].power)}

\* Registries of a scan in which OCR reports powers of ScanPowers only.
ScanRegistries == {r \in Registries : PowersOf(r) \subseteq ScanPowers}

\* max_battles of run(): an override, or ARENA_MAX_BATTLES.
MaxBattlesInputs == {1, ARENA_MAX_BATTLES}

\* The state a finished scan hands to the attack phase.
AfterScan(registry) ==
    /\ pc = "prepare"
    /\ opponents = registry
    /\ known_powers = PowersOf(opponents)
    /\ scroll_count = 0
    /\ max_scroll_reached = 0
    /\ current_scroll_position = <<>>
    /\ last_bottom_powers = {}
    /\ consecutive_empty_scans = 0
    /\ up_i = 0
    /\ listLen = 0
    /\ physPos = 0
    /\ downGestures = 0
    /\ upGestures = 0
    /\ prevBand = {}
    /\ dup = <<>>
    /\ sameSeen = FALSE
    /\ BattleInit
    /\ RunInit
    /\ OcrIdle
    /\ game_rows = Rows
    /\ mode \in {"continuous", "single"}
    /\ max_battles \in MaxBattlesInputs
    /\ effective_max_battles = max_battles
    /\ stop_requested = FALSE

\* A single screen of three rows, all available, nothing scrolled.
SingleScreen ==
    <<[power |-> 12000, scroll_position |-> 0, available |-> TRUE],
      [power |-> 8000, scroll_position |-> 0, available |-> TRUE],
      [power |-> 15000, scroll_position |-> 0, available |-> TRUE]>>

Init == \E registry \in Registries \cup {SingleScreen} : AfterScan(registry)

Next ==
    \/ Prepare
    \/ PhaseStart
    \/ PhaseLoop
    \/ AttackEntry
    \/ AttackTokens
    \/ AttackNavigate
    \/ AttackClickBattle
    \/ AttackStartFight
    \/ AttackWaitComplete
    \/ AttackReturnArena
    \/ PhaseAfterAttack
    \/ RequestStop

Spec == Init /\ [][Next]_vars /\ WF_vars(Next)

(***************************************************************************)
(* prepare_targets alone, on every registry and every argument.            *)
(***************************************************************************)
InitSched == \E registry \in AllRegistries : AfterScan(registry)

NextSched == Prepare

SpecSched == InitSched /\ [][NextSched]_vars

(***************************************************************************)
(* BattleSequence.verify_list_unchanged, called between two attacks.       *)
(***************************************************************************)
\* Sets of powers handed in as expected_powers_at_position.
ExpectedInputs == {{}, {300}, {100, 200, 300}}

\* Sets of powers get_current_visible_powers may return.
VisibleInputs == {{}, {300}, {400}, {300, 400}, {500, 600}}

\* Variant: every expected power has to be visible.
verify_list_unchanged_all(expected, current) ==
    expected \subseteq current

\* overlap = current_powers & expected_powers_at_position; the value
\* returned is whether overlap is non-empty.
verify_list_unchanged(expected, current) ==
    (current \cap expected) # {}

\* One call of verify_list_unchanged.
VerifyListUnchanged ==
    /\ pc = "phase_loop"
    /\ \E expected \in ExpectedInputs, current \in VisibleInputs :
        LET returned == verify_list_unchanged(expected, current)
        IN  /\ verify' = <<[expected |-> expected, current |-> current,
                            returned |-> returned,
                            valid_before |-> list_valid]>>
            /\ list_valid' = IF returned THEN list_valid ELSE FALSE
    /\ UNCHANGED <<pc, scanVars, current_scroll_position, sorted_targets,
                   current_target_index, battles_completed, max_battles,
                   last_attack_result, result, stop_requested, args, tok,
                   call, runGhost, attacked, ending>>
    /\ UNCHANGED ocrVars

InitVerify == Init

NextVerify ==
    \/ Next
    \/ VerifyListUnchanged

SpecVerify == InitVerify /\ [][NextVerify]_vars /\ WF_vars(NextVerify)

(***************************************************************************)
(* ClassicArenaSequence.run                                                *)
(***************************************************************************)
ARENA_ATTACK_WEAKEST_FIRST == TRUE

ARENA_MAX_OPPONENT_POWER == 0

\* max_back_clicks of _navigate_home
MAX_BACK_CLICKS == 5

Modes == {"continuous", "scan_only", "single"}

\* Variant: the attack phase always reports that tokens are left.
has_tokens_always(r) == TRUE

\* return result not in ('no_tokens', 'stopped')
has_tokens(r) == r \notin {"no_tokens", "stopped"}

\* Variant: the handler reports success.
run_result_on_exception_true == TRUE

\* except Exception: ... return False
run_result_on_exception == FALSE

\* The steps of run that capture the window or drive the mouse: each can
\* raise (WindowCapture.get_window raises when the window is not found).
RaisingPcs ==
    {"run_start", "run_scan", "attack_tokens", "attack_navigate",
     "attack_click_battle", "attack_start_fight", "attack_wait_complete",
     "attack_return_arena", "run_check_refresh", "run_refresh_tokens",
     "run_refresh", "run_home"}

\* What check_needs_refresh reads: the powers OCR finds in the top band.
TopBandReadings == SeqsUpTo(Powers, 1)

\* check_needs_refresh, given the top-band reading.
check_needs_refresh(powers) ==
    IF current_target_index >= Len(sorted_targets) THEN FALSE
    ELSE IF powers # <<>> THEN powers[1] = CurrentTarget.power
    ELSE FALSE

\* click_refresh_list: the free button, else the paid one, else nothing.
RefreshOutcomes == {"free", "paid", "none"}

\* Variant: the paid button is looked for first.
click_refresh_list_pay_first(free_found, pay_found) ==
    [clicked |-> free_found \/ pay_found,
     outcome |-> IF pay_found THEN "paid"
                 ELSE IF free_found THEN "free" ELSE "none",
     searches |-> IF pay_found THEN <<"paid">> ELSE <<"paid", "free">>]

\* click_refresh_list: find_and_click on the free template; only when it
\* is not found, find_and_click on the paid template.  searches: the
\* templates looked for, in order.
click_refresh_list(free_found, pay_found) ==
    [clicked |-> free_found \/ pay_found,
     outcome |-> IF free_found THEN "free"
                 ELSE IF pay_found THEN "paid" ELSE "none",
     searches |-> IF free_found THEN <<"free">> ELSE <<"free", "paid">>]

\* One step of run after the attack phase, as cycle_log keeps it.
LogEntry(step, value, searches) ==
    [step |-> step, value |-> value, searches |-> searches]

\* How run leaves the attack phase: the stop check, then has_tokens.
phase_exit ==
    IF should_stop THEN "stopped"
    ELSE IF has_tokens(last_attack_result[1]) THEN last_attack_result[1]
    ELSE "no_tokens"

\* The cycle is told to end: the first reason is kept.
Ended(why) == IF ending = "none" THEN why ELSE ending

\* The state in which ClassicArenaSequence.run is entered.
InitRun ==
    /\ pc = "run_start"
    /\ opponents = <<>>
    /\ scroll_count = 0
    /\ max_scroll_reached = 0
    /\ known_powers = {}
    /\ current_scroll_position = <<>>
    /\ last_bottom_powers = {}
    /\ consecutive_empty_scans = 0
    /\ up_i = 0
    /\ listLen = 0
    /\ physPos = 0
    /\ downGestures = 0
    /\ upGestures = 0
    /\ prevBand = {}
    /\ dup = <<>>
    /\ sameSeen = FALSE
    /\ BattleInit
    /\ RunInit
    /\ OcrIdle
    /\ game_rows = Rows
    /\ mode \in Modes
    /\ max_battles = ARENA_MAX_BATTLES
    /\ effective_max_battles \in MaxBattlesInputs
    /\ stop_requested = FALSE

\* window_info = self.window_capture.get_window(), then the mode is taken.
RunStart ==
    /\ pc = "run_start"
    /\ pc' = IF mode = "continuous" THEN "run_cycle" ELSE "run_scan"
    /\ UNCHANGED <<scanVars, current_scroll_position, battleVars, runVars>>
    /\ UNCHANGED ocrVars

\* The top of the continuous loop: should_stop() is sampled.
RunCycleTop ==
    /\ pc = "run_cycle"
    /\ IF should_stop
       THEN pc' = "run_home" /\ ending' = Ended("stopped")
       ELSE pc' = "run_scan" /\ UNCHANGED ending
    /\ cycle_log' = <<>>
    /\ UNCHANGED <<scanVars, current_scroll_position, battleVars, mode,
                   effective_max_battles, ret, raised, scanned, back_clicks,
                   sample, wedged, attacked, verify>>
    /\ UNCHANGED ocrVars

\* self.opponents = self.scanner.run_full_scan(): the scan as a whole, by
\* the registry it returns; it ends with the tracked index at 0.
RunScan ==
    /\ pc = "run_scan"
    /\ \E registry \in ScanRegistries :
        /\ opponents' = registry
        /\ known_powers' = PowersOf(registry)
        /\ wedged' = (wedged /\ registry = <<>>)
    /\ scroll_count' = 0
    /\ scanned' = TRUE
    /\ pc' = "run_scanned"
    /\ UNCHANGED <<max_scroll_reached, last_bottom_powers,
                   consecutive_empty_scans, up_i, listLen, physPos,
                   downGestures, upGestures, prevBand, dup, sameSeen,
                   current_scroll_position, battleVars, mode,
                   effective_max_battles, ret, raised, back_clicks, sample,
                   cycle_log, verify, attacked, ending>>
    /\ UNCHANGED ocrVars

\* reset() and prepare_targets with the configured order and ceiling.
RunTargets ==
    /\ sorted_targets' = prepare_targets(opponents, ARENA_ATTACK_WEAKEST_FIRST,
                                         <<ARENA_MAX_OPPONENT_POWER>>)
    /\ current_target_index' = 0
    /\ battles_completed' = 0
    /\ list_valid' = TRUE

\* What each mode does with the scanned registry.
RunPrepare ==
    /\ pc = "run_scanned"
    /\ CASE mode = "scan_only" ->
              /\ IF opponents # <<>>
                 THEN RunTargets
                 ELSE UNCHANGED <<sorted_targets, current_target_index,
                                  battles_completed, list_valid>>
              /\ ret' = <<TRUE>>
              /\ pc' = "run_done"
              /\ UNCHANGED max_battles
         [] mode = "single" ->
              IF opponents = <<>>
              THEN /\ ret' = <<FALSE>>
                   /\ pc' = "run_done"
                   /\ UNCHANGED <<sorted_targets, current_target_index,
                                  battles_completed, list_valid, max_battles>>
              ELSE /\ max_battles' = effective_max_battles
                   /\ RunTargets
                   /\ pc' = "phase_start"
                   /\ UNCHANGED ret
         [] OTHER ->
              IF opponents = <<>>
              THEN /\ pc' = "run_refresh_tokens"
                   /\ UNCHANGED <<sorted_targets, current_target_index,
                                  battles_completed, list_valid, max_battles,
                                  ret>>
              ELSE /\ max_battles' = effective_max_battles
                   /\ RunTargets
                   /\ pc' = IF sorted_targets' = <<>>
                            THEN "run_refresh_tokens" ELSE "phase_start"
                   /\ UNCHANGED ret
    /\ UNCHANGED <<scanVars, current_scroll_position, last_attack_result,
                   result, stop_requested, args, tok, call, mode,
                   effective_max_battles, raised, scanned, back_clicks, sample,
                   wedged, cycle_log, verify, attacked, ending>>
    /\ UNCHANGED ocrVars

\* run_attack_phase has returned to run.
RunAfterPhase ==
    /\ pc = "phase_done"
    /\ IF mode = "single"
       THEN /\ ret' = <<TRUE>>
            /\ pc' = "run_done"
            /\ UNCHANGED <<ending, cycle_log>>
       ELSE /\ UNCHANGED ret
            /\ cycle_log' = <<LogEntry("phase", phase_exit, <<>>)>>
            /\ IF should_stop
               THEN pc' = "run_home" /\ ending' = Ended("stopped")
               ELSE /\ UNCHANGED ending
                    /\ pc' = IF has_tokens(last_attack_result[1])
                             THEN "run_check_refresh" ELSE "run_home"
    /\ UNCHANGED <<scanVars, current_scroll_position, battleVars, mode,
                   effective_max_battles, raised, scanned, back_clicks, sample,
                   wedged, verify, attacked>>
    /\ UNCHANGED ocrVars

\* if self.battle_seq.check_needs_refresh(): both branches go on alike.
RunCheckRefresh ==
    /\ pc = "run_check_refresh"
    /\ \E powers \in TopBandReadings :
        /\ sample' = <<[powers |-> powers,
                        needs_refresh |-> check_needs_refresh(powers)]>>
        /\ cycle_log' =
               Append(cycle_log,
                      LogEntry("check",
                               IF check_needs_refresh(powers)
                               THEN "refresh_needed" ELSE "all_defeated",
                               <<>>))
    /\ pc' = "run_refresh_tokens"
    /\ UNCHANGED <<scanVars, current_scroll_position, battleVars, mode,
                   effective_max_battles, ret, raised, scanned, back_clicks,
                   wedged, verify, attacked, ending>>
    /\ UNCHANGED ocrVars

\* token_status = self.battle_seq.ensure_arena_tokens() before a refresh.
RunRefreshTokens ==
    /\ pc = "run_refresh_tokens"
    /\ \E in \in TokenInputs :
        LET t == token_record(in[1], in[2], in[3], scroll_count)
            sc == scanner_after_tokens(t.status, scroll_count,
                                       current_scroll_position)
        IN  /\ tok' = <<t>>
            /\ scroll_count' = sc.scroll_count
            /\ current_scroll_position' = sc.current_scroll_position
            /\ wedged' = (wedged /\ ~t.found)
            /\ cycle_log' = Append(cycle_log,
                                   LogEntry("tokens",
                                            IF returns_no_tokens(t.status)
                                            THEN "no_tokens" ELSE "tokens",
                                            <<>>))
            /\ IF returns_no_tokens(t.status)
               THEN pc' = "run_home" /\ ending' = Ended("no_tokens")
               ELSE pc' = "run_refresh" /\ UNCHANGED ending
    /\ sample' = <<>>
    /\ UNCHANGED <<scanLocalVars, sorted_targets, current_target_index,
                   battles_completed, max_battles, list_valid,
                   last_attack_result, result, stop_requested, args, call,
                   mode, effective_max_battles, ret, raised, scanned,
                   back_clicks, verify, attacked>>
    /\ UNCHANGED ocrVars

\* self.battle_seq.click_refresh_list(); its result is not looked at.
RunRefresh ==
    /\ pc = "run_refresh"
    /\ \E free_found \in BOOLEAN, pay_found \in BOOLEAN :
        LET r == click_refresh_list(free_found, pay_found)
        IN  /\ wedged' = (wedged /\ r.outcome = "none")
            /\ cycle_log' = Append(cycle_log,
                                   LogEntry("refresh", r.outcome, r.searches))
    /\ tok' = <<>>
    /\ pc' = "run_cycle"
    /\ UNCHANGED <<scanVars, current_scroll_position, sorted_targets,
                   current_target_index, battles_completed, max_battles,
                   list_valid, last_attack_result, result, stop_requested,
                   args, call, mode, effective_max_battles, ret, raised,
                   scanned, back_clicks, sample, verify, attacked, ending>>
    /\ UNCHANGED ocrVars

\* _navigate_home: Back is clicked while it is found, at most
\* MAX_BACK_CLICKS times; then run returns True.
RunNavigateHome ==
    /\ pc = "run_home"
    /\ \E n \in 0..MAX_BACK_CLICKS : back_clicks' = <<n>>
    /\ cycle_log' = <<>>
    /\ ret' = <<TRUE>>
    /\ pc' = "run_done"
    /\ UNCHANGED <<scanVars, current_scroll_position, battleVars, mode,
                   effective_max_battles, raised, scanned, sample, wedged,
                   verify, attacked, ending>>
    /\ UNCHANGED ocrVars

\* An exception in a step of run: the handler returns False.
RunException ==
    /\ pc \in RaisingPcs
    /\ raised' = TRUE
    /\ ret' = <<run_result_on_exception>>
    /\ pc' = "run_done"
    /\ UNCHANGED <<scanVars, current_scroll_position, battleVars, mode,
                   effective_max_battles, scanned, back_clicks, sample, wedged,
                   cycle_log, verify, attacked, ending>>
    /\ UNCHANGED ocrVars

\* DreamerApp.request_stop during run_classic_arena_full, the one caller
\* that passes a stop check.
RunRequestStop ==
    /\ mode = "continuous"
    /\ ~stop_requested
    /\ pc # "run_done"
    /\ stop_requested' = TRUE
    /\ UNCHANGED <<pc, scanVars, current_scroll_position, sorted_targets,
                   current_target_index, battles_completed, max_battles,
                   list_valid, last_attack_result, result, args, tok, call,
                   runVars>>
    /\ UNCHANGED ocrVars

NextRun ==
    \/ RunStart
    \/ RunCycleTop
    \/ RunScan
    \/ RunPrepare
    \/ PhaseStart
    \/ PhaseLoop
    \/ AttackEntry
    \/ AttackTokens
    \/ AttackNavigate
    \/ AttackClickBattle
    \/ AttackStartFight
    \/ AttackWaitComplete
    \/ AttackReturnArena
    \/ PhaseAfterAttack
    \/ RunAfterPhase
    \/ RunCheckRefresh
    \/ RunRefreshTokens
    \/ RunRefresh
    \/ RunNavigateHome
    \/ RunException
    \/ RunRequestStop

SpecRun == InitRun /\ [][NextRun]_vars /\ WF_vars(NextRun)

(***************************************************************************)
(* Claims about prepare_targets (SpecSched) and the attack phase (Spec).   *)
(***************************************************************************)
PowerList(list) == [i \in 1..Len(list) |-> list[i].power]

AllAvailable(list) == \A i \in 1..Len(list) : list[i].available

\* C1: prepare_targets returns exactly the registry entries that are
\* available and, when max_power > 0, of power <= max_power, in ascending
\* power order when weakest_first and descending otherwise; 0 and None set
\* no ceiling.  Powers 5000, 3000, 8000, all available, weakest first give
\* 3000, 5000, 8000, and 3000 alone under max_power 4000.
PrepareTargetsCorrect ==
    args # <<>> =>
        LET wf == args[1].weakest_first
            mp == args[1].max_power
            ceiling == mp \notin {<<>>, <<0>>}
            kept == {o \in Range(opponents) :
                        o.available /\ (ceiling => o.power <= mp[1])}
            n == Len(sorted_targets)
        IN  /\ Range(sorted_targets) = kept
            /\ n = Cardinality(kept)
            /\ \A i, j \in 1..n :
                  i < j => IF wf
                           THEN sorted_targets[i].power <= sorted_targets[j].power
                           ELSE sorted_targets[i].power >= sorted_targets[j].power
            /\ (PowerList(opponents) = <<5000, 3000, 8000>>
                  /\ AllAvailable(opponents) /\ wf) =>
                    /\ mp = <<0>> =>
                          PowerList(sorted_targets) = <<3000, 5000, 8000>>
                    /\ mp = <<4000>> => PowerList(sorted_targets) = <<3000>>

\* C1 witness: the example registry scheduled under max_power 4000.
PrepareTargetsWitness ==
    /\ pc = "phase_start"
    /\ args # <<>>
    /\ args[1].weakest_first
    /\ args[1].max_power = <<4000>>
    /\ PowerList(opponents) = <<5000, 3000, 8000>>
    /\ AllAvailable(opponents)
    /\ PowerList(sorted_targets) = <<3000>>

\* C2: no entry with available = FALSE is in the Target List, whatever
\* weakest_first and max_power were, and the target attack_next_target
\* selects is never such an entry.
NoUnavailableTarget ==
    /\ AllAvailable(sorted_targets)
    /\ (call # <<>> /\ call[1].target # <<>>) =>
          /\ call[1].target[1].available
          /\ call[1].target[1] \in Range(sorted_targets)

\* C2 witness: the registry holds an unavailable entry and an attack has
\* selected and reached its target.
NoUnavailableTargetWitness ==
    /\ ~AllAvailable(opponents)
    /\ pc = "attack_click_battle"
    /\ call # <<>>
    /\ call[1].target # <<>>

\* C8 as stated: ensure_arena_tokens returns 'ok' exactly when the empty
\* indicator is not detected, 'refilled' exactly when it is detected and
\* the free refill is found and then clicked, 'no_tokens' exactly when it
\* is detected and no free refill is found; escape is pressed in the
\* 'no_tokens' case only.
TokenResultAsStated ==
    tok # <<>> =>
        LET t == tok[1]
        IN  /\ t.status = "ok" <=> ~t.found
            /\ t.status = "refilled" <=>
                  (t.found /\ t.found_free /\ t.free_clicks = 1)
            /\ t.status = "no_tokens" <=> (t.found /\ ~t.found_free)
            /\ t.escapes = 1 <=> t.status = "no_tokens"

\* C9 as stated: right after ensure_arena_tokens has clicked the free refill
\* and returned 'refilled', the tracked scroll index scroll_count is 0.
RefillResetsScroll ==
    (tok # <<>> /\ tok[1].status = "refilled" /\ tok[1].free_clicks = 1) =>
        scroll_count = 0

\* C10: in a call of attack_next_target no navigation scroll and no click
\* for the target is issued before the token check of that call, and when
\* the check reports 'no_tokens' the call returns 'no_tokens' with no
\* navigation scroll, no click for the target, and the cursor and
\* battles_completed as they were at entry.
TokenCheckFirst ==
    /\ (call # <<>> /\ (call[1].nav_scrolls > 0 \/ call[1].clicks > 0)) =>
          (call[1].token_checked /\ result # "no_tokens")
    /\ (tok # <<>> /\ tok[1].status = "no_tokens") =>
          /\ pc = "attack_ret"
          /\ result = "no_tokens"
          /\ call[1].token_checked
          /\ call[1].target = <<>>
          /\ call[1].nav_scrolls = 0
          /\ call[1].clicks = 0
          /\ current_target_index = call[1].cursor
          /\ battles_completed = call[1].battles
          /\ scroll_count = call[1].scroll

\* C10 witness: a call, entered at a non-zero scroll index with targets
\* left, that the token check ended with 'no_tokens'.
TokenCheckFirstWitness ==
    /\ pc = "attack_ret"
    /\ result = "no_tokens"
    /\ tok # <<>>
    /\ tok[1].status = "no_tokens"
    /\ call[1].scroll > 0
    /\ call[1].cursor > 0

(***************************************************************************)
(* Claims about run_full_scan, checked under SpecScan.                     *)
(***************************************************************************)
ScanDone == pc = "scan_done"

ScanStopped == pc \in {"scan_after_loop", "scan_return_top", "scan_done"}

\* C3: in every state during and after a scan the registry holds at most
\* one reading per power, and known_powers is exactly the set of powers in
\* the registry.
RegistryDedup ==
    /\ \A i, j \in 1..Len(opponents) :
          opponents[i].power = opponents[j].power => i = j
    /\ known_powers = PowersOf(opponents)

\* C3 witness: a scan finished in which a capture reported a power that was
\* already registered (the same row seen twice).
RegistryDedupWitness ==
    /\ ScanDone
    /\ sameSeen
    /\ Len(opponents) = Cardinality(ScanPowers)

\* C4 as stated: when a non-empty bottom band repeats at gesture N+1, no
\* gesture follows and max_scroll_reached is N.
EndOfListOriginal ==
    (ScanDone /\ dup # <<>>) =>
        /\ downGestures = dup[1].gestures
        /\ max_scroll_reached = dup[1].gestures - 1

\* C4 amended: when a non-empty bottom band repeats the previous band, no
\* scroll-down gesture follows, and max_scroll_reached is below the tracked
\* index k of the repeating capture: k - 1 when the main loop met it, k - 2
\* when the confirmation scroll met it.
EndOfListAmended ==
    dup # <<>> =>
        /\ ScanStopped
        /\ downGestures = dup[1].gestures
        /\ pc \in {"scan_return_top", "scan_done"} =>
              max_scroll_reached =
                  dup[1].idx - (IF dup[1].kind = "confirm" THEN 2 ELSE 1)

\* C4 witness: a scan that ended on a confirmation band repeating the band
\* before it.
EndOfListWitness ==
    /\ ScanDone
    /\ dup # <<>>
    /\ dup[1].kind = "confirm"
    /\ max_scroll_reached = dup[1].idx - 2

\* C5: run_full_scan terminates for every sequence of observations.
ScanTerminates == <>ScanDone

\* C5 witness: a scan that never met a repeated band and ended through the
\* ceiling after the largest number of gestures.
ScanTerminatesWitness ==
    /\ ScanDone
    /\ dup = <<>>
    /\ downGestures = 2 * ARENA_MAX_SCROLL_ATTEMPTS

\* C6 as stated: neither the scroll-down gestures of a scan nor the tracked
\* scroll index ever exceed ARENA_MAX_SCROLL_ATTEMPTS.
ScrollCeilingRespected ==
    /\ downGestures <= ARENA_MAX_SCROLL_ATTEMPTS
    /\ scroll_count <= ARENA_MAX_SCROLL_ATTEMPTS

\* C7 as stated: when the scan returns the tracked index is 0 and the list
\* is physically at the top.
ScanReturnsToTop ==
    ScanDone => (scroll_count = 0 /\ physPos = 0)


(***************************************************************************)
(* Claims about ClassicArenaSequence.run (SpecRun) and                     *)
(* verify_list_unchanged (SpecVerify).                                     *)
(***************************************************************************)
RunDone == pc = "run_done"

\* C11: in continuous mode, once a token check (before an attack or before
\* a refresh) has reported 'no_tokens', no scan, attack attempt or refresh
\* click follows; the run goes through the navigate-home step, with at most
\* MAX_BACK_CLICKS Back clicks, and returns.
NoTokensEndsRun ==
    /\ [](mode = "continuous" /\ ending = "no_tokens" =>
            /\ pc \in {"attack_ret", "phase_done", "run_home", "run_done"}
            /\ (RunDone /\ ~raised) =>
                  /\ back_clicks # <<>>
                  /\ back_clicks[1] <= MAX_BACK_CLICKS
                  /\ ret = <<TRUE>>)
    /\ [][(mode = "continuous" /\ ending = "no_tokens") =>
            /\ tok' \in {tok, <<>>}
            /\ call' \in {call, <<>>}
            /\ pc' \notin {"run_scan", "attack_entry", "run_refresh"}]_vars
    /\ (mode = "continuous" /\ ending = "no_tokens") ~> RunDone

\* C11 witness: an attack after a won battle ran out of tokens and the run
\* returned after the full count of Back clicks.
NoTokensEndsRunWitness ==
    /\ RunDone
    /\ mode = "continuous"
    /\ ending = "no_tokens"
    /\ last_attack_result = <<"no_tokens">>
    /\ battles_completed > 0
    /\ back_clicks = <<MAX_BACK_CLICKS>>
    /\ ret = <<TRUE>>

\* C12: verify_list_unchanged returns true exactly when the visible powers
\* and the expected powers intersect; on an empty intersection it returns
\* false and sets list_valid to false, on true it leaves list_valid alone
\* ({100,200,300} against {300,400} is true, against {500,600} false).
\* While list_valid is false attack_next_target returns 'list_invalid'
\* with no token check, navigation, click or cursor change.
ListVerification ==
    /\ [](verify # <<>> =>
            LET v == verify[1]
            IN  /\ v.returned <=> (\E p \in v.expected : p \in v.current)
                /\ ~v.returned => ~list_valid
                /\ v.returned => (list_valid = v.valid_before)
                /\ (v.expected = {100, 200, 300} /\ v.current = {300, 400})
                      => v.returned
                /\ (v.expected = {100, 200, 300} /\ v.current = {500, 600})
                      => (~v.returned /\ ~list_valid))
    /\ [][(~list_valid /\ pc = "attack_entry" /\ pc' # pc) =>
            /\ result' = "list_invalid"
            /\ pc' = "attack_ret"
            /\ tok' = <<>>
            /\ UNCHANGED <<scroll_count, current_target_index,
                           battles_completed, list_valid>>]_vars
    /\ []((pc = "attack_ret" /\ result = "list_invalid") =>
            /\ ~list_valid
            /\ ~call[1].token_checked
            /\ call[1].nav_scrolls = 0
            /\ call[1].clicks = 0)
    /\ [][~list_valid => ~list_valid']_vars

\* C12 witness: after a battle the list failed verification and the next
\* attack_next_target call ended the phase with 'list_invalid'.
ListVerificationWitness ==
    /\ pc = "phase_done"
    /\ ~list_valid
    /\ last_attack_result = <<"list_invalid">>
    /\ battles_completed > 0
    /\ current_target_index < Len(sorted_targets)

\* C13 as stated: in the continuous loop, when an attack phase has left
\* un-attacked targets and the re-sampled visible powers hold none of the
\* expected (registered) powers, the list_invalid state is reached:
\* list_valid is false when the loop goes on to the refresh.
RosterChangeDetected ==
    (/\ mode = "continuous"
     /\ pc = "run_refresh_tokens"
     /\ sample # <<>>
     /\ current_target_index < Len(sorted_targets)
     /\ sample[1].powers # <<>>
     /\ Range(sample[1].powers) \cap PowersOf(opponents) = {})
        => ~list_valid

\* C14: in continuous mode the stop flag is sampled at the top of each
\* cycle, before each attack and right after the attack phase; once a
\* sample has seen it set, no attack attempt (token check, navigation,
\* click), no scan and no refresh click is begun in that run.
StopSampled ==
    /\ [][(stop_requested /\ pc = "run_cycle") => pc' = "run_home"]_vars
    /\ [][(stop_requested /\ pc = "phase_loop") =>
            (pc' = "phase_done" /\ result' = "stopped")]_vars
    /\ [][(stop_requested /\ pc = "phase_done" /\ mode = "continuous") =>
            pc' = "run_home"]_vars
    /\ [](ending = "stopped" =>
            pc \in {"phase_done", "run_home", "run_done"})
    /\ [][ending = "stopped" =>
            /\ UNCHANGED <<tok, call, scroll_count, current_target_index,
                           battles_completed, opponents>>
            /\ pc' \notin {"run_scan", "attack_entry", "run_refresh_tokens",
                           "run_refresh"}]_vars

\* C14 witness: the stop was seen before an attack, after a won battle and
\* with targets left, and the run has returned.
StopSampledWitness ==
    /\ RunDone
    /\ mode = "continuous"
    /\ ending = "stopped"
    /\ last_attack_result = <<"stopped">>
    /\ battles_completed > 0
    /\ current_target_index < Len(sorted_targets)

\* C15: once the stop flag is set (it stays set), a continuous-mode run
\* eventually returns.
StopTerminates == stop_requested ~> RunDone

\* C15 witness: the flag was set while a phase that won a battle was in
\* flight; the phase ran to its end, the sample after it ended the loop and
\* the run returned through the navigate-home step.
StopTerminatesWitness ==
    /\ RunDone
    /\ stop_requested
    /\ ~raised
    /\ ending = "stopped"
    /\ last_attack_result = <<"no_more">>
    /\ battles_completed > 0
    /\ back_clicks # <<>>
    /\ ret = <<TRUE>>

\* C16: battles_completed never exceeds max_battles; when it equals
\* max_battles and targets remain, attack_next_target returns 'max_reached'
\* with no token check, navigation or click, and the attack phase ends.
BattleCeiling ==
    /\ [](battles_completed <= max_battles)
    /\ [][(/\ pc = "attack_entry"
           /\ pc' # pc
           /\ list_valid
           /\ battles_completed = max_battles
           /\ current_target_index < Len(sorted_targets)) =>
            /\ result' = "max_reached"
            /\ pc' = "attack_ret"
            /\ tok' = <<>>
            /\ UNCHANGED <<scroll_count, current_target_index,
                           battles_completed>>]_vars
    /\ []((pc = "attack_ret" /\ result = "max_reached") =>
            /\ ~call[1].token_checked
            /\ call[1].nav_scrolls = 0
            /\ call[1].clicks = 0)
    /\ [][(pc = "attack_ret" /\ result = "max_reached" /\ pc' # pc) =>
            (pc' = "phase_done"
             /\ last_attack_result' = <<"max_reached">>)]_vars

\* C16 witness: the phase ended at the ceiling with targets left.
BattleCeilingWitness ==
    /\ pc = "phase_done"
    /\ last_attack_result = <<"max_reached">>
    /\ battles_completed = max_battles
    /\ current_target_index < Len(sorted_targets)

\* C17: for a Target List of n <= max_battles targets, with tokens left,
\* no stop and every step of every attack succeeding (no target skipped),
\* run_attack_phase attacks the targets one by one in Target List order
\* and ends with battles_completed = n and the result 'no_more'; the
\* single screen 12000, 8000, 15000 is scheduled as 8000, 12000, 15000 and
\* ends with battles_completed = 3.
AttackPhaseCompletes ==
    /\ []((/\ pc = "phase_done"
           /\ mode = "continuous"
           /\ sorted_targets # <<>>
           /\ Len(sorted_targets) <= max_battles
           /\ ~stop_requested
           /\ last_attack_result # <<"no_tokens">>
           /\ current_target_index = battles_completed) =>
            /\ battles_completed = Len(sorted_targets)
            /\ last_attack_result = <<"no_more">>)
    /\ [][battles_completed' = battles_completed + 1 =>
            /\ call[1].target = <<sorted_targets[current_target_index + 1]>>
            /\ call[1].token_checked
            /\ current_target_index' = current_target_index + 1
            /\ result' = "success"]_vars
    /\ []((/\ opponents = SingleScreen
           /\ args # <<>>
           /\ args[1].weakest_first
           /\ args[1].max_power \in {<<>>, <<0>>}) =>
            PowerList(sorted_targets) = <<8000, 12000, 15000>>)

\* C17 witness: the single screen, scheduled weakest first, attacked to the
\* end without a skip.
AttackPhaseCompletesWitness ==
    /\ pc = "phase_done"
    /\ mode = "continuous"
    /\ opponents = SingleScreen
    /\ PowerList(sorted_targets) = <<8000, 12000, 15000>>
    /\ ~stop_requested
    /\ current_target_index = 3
    /\ battles_completed = 3
    /\ last_attack_result = <<"no_more">>

\* C18: an exception raised in a step of run is caught at the run
\* boundary: run returns False, and no scan, attack or refresh step is
\* taken after it.
ExceptionCaught ==
    /\ [](raised => (RunDone /\ ret = <<FALSE>>))
    /\ [][~raised]_vars

\* C18 witness: the exception came during an attack, after a won battle.
ExceptionCaughtWitness ==
    /\ raised
    /\ RunDone
    /\ ret = <<FALSE>>
    /\ battles_completed > 0
    /\ call # <<>>
    /\ call[1].clicks > 0

\* C19 as stated: a continuous-mode run with no stop signal against a
\* wedged game UI (no template matches, OCR returns no powers) terminates.
WedgedRunTerminates ==
    (mode = "continuous") => <>(RunDone \/ ~wedged \/ stop_requested)

\* C20: with scan_only the run makes exactly one scan, no token check, no
\* battle click and no refresh click, and returns True even when the scan
\* found nothing; with test_single_attack it makes exactly one scan and at
\* most one attack_next_target call (battles_completed <= 1), and returns
\* False without attacking when the scan found nothing.
BoundedModes ==
    /\ [](mode = "scan_only" =>
            /\ pc \in {"run_start", "run_scan", "run_scanned", "run_done"}
            /\ tok = <<>>
            /\ call = <<>>
            /\ ~attacked
            /\ battles_completed = 0
            /\ (RunDone /\ ~raised) => (scanned /\ ret = <<TRUE>>))
    /\ [](mode = "single" =>
            /\ pc \notin {"run_cycle", "phase_loop", "run_check_refresh",
                          "run_refresh_tokens", "run_refresh", "run_home"}
            /\ battles_completed <= 1
            /\ current_target_index <= 1
            /\ (RunDone /\ ~raised) =>
                  /\ scanned
                  /\ opponents = <<>> =>
                        (ret = <<FALSE>> /\ ~attacked /\ tok = <<>>)
                  /\ opponents # <<>> => ret = <<TRUE>>)
    /\ [][(mode # "continuous" /\ pc = "run_scan" /\ pc' = "run_scanned")
            => ~scanned]_vars
    /\ [][(mode = "single" /\ pc = "attack_entry" /\ pc' # pc)
            => ~attacked]_vars

\* C20 witness: the test mode, with two targets scheduled, has fought the
\* first one and returned.
BoundedModesWitness ==
    /\ RunDone
    /\ mode = "single"
    /\ Len(sorted_targets) > 1
    /\ attacked
    /\ battles_completed = 1
    /\ ret = <<TRUE>>

(***************************************************************************)
(* TextRecognizer.find_all_team_powers  (src/text_recognition.py)          *)
(* A text is a sequence of one-character strings.  The frame holds what    *)
(* the two OCR passes give: the groups captured by the labelled pattern in *)
(* the full text, and the positioned text elements.                        *)
(***************************************************************************)
\* Longest text OCR hands over.
MaxTextLen == 7

Digits == <<"0", "1", "2", "3", "4", "5", "6", "7", "8", "9">>

IsDigit(c) == \E i \in 1..Len(Digits) : Digits[i] = c

DigitValue(c) == (CHOOSE i \in 1..Len(Digits) : Digits[i] = c) - 1

\* Characters of the texts OCR reports in the model.
OcrChars == {"0", "1", "9", ","}

\* .replace(',', '').replace('.', '')
strip_separators(text) == SelectSeq(text, LAMBDA c : c \notin {",", "."})

RECURSIVE int_loop(_, _)
int_loop(s, acc) ==
    IF s = <<>> THEN acc
    ELSE int_loop(Tail(s), 10 * acc + DigitValue(Head(s)))

\* int(power_str): <<the value>>, or <<>> for ValueError.
to_int(s) ==
    IF s = <<>> \/ (\E i \in 1..Len(s) : ~IsDigit(s[i]))
    THEN <<>>
    ELSE <<int_loop(s, 0)>>

\* The group (\d[\d,\.]+) of the labelled pattern.
is_group(text) ==
    /\ Len(text) >= 2
    /\ IsDigit(text[1])
    /\ \A i \in 1..Len(text) : IsDigit(text[i]) \/ text[i] \in {",", "."}

\* power_str in result_text
Contains(text, sub) ==
    \E i \in 1..(Len(text) - Len(sub) + 1) :
        SubSeq(text, i, i + Len(sub) - 1) = sub

\* if power < 1000: continue
labelled_accepts(power) == ~(power < 1000)

\* re.match(r'^\d{4,6}$', text)
fallback_pattern(text) ==
    /\ Len(text) >= 4
    /\ Len(text) <= 6
    /\ \A i \in 1..Len(text) : IsDigit(text[i])

\* if 1000 <= power <= 999999 and power not in found_powers
fallback_accepts(power, found_powers) ==
    /\ 1000 <= power
    /\ power <= 999999
    /\ power \notin found_powers

\* The y position of a labelled match: the first positioned text that
\* holds the digits at an unused y, else the estimate from the order.
\* (Method 2 needs a positioned text holding the label; the positioned
\* texts of the model hold numbers.)
labelled_y(power_str, results, used_y_positions, n) ==
    LET hits == {i \in 1..Len(results) :
                    /\ Contains(strip_separators(results[i].text), power_str)
                    /\ results[i].y \notin used_y_positions}
    IN  IF hits # {}
        THEN results[CHOOSE i \in hits : \A j \in hits : i <= j].y
        ELSE n * 115 + 50

\* for match in matches_found
RECURSIVE labelled_pass(_, _, _)
labelled_pass(matches, results, st) ==
    IF matches = <<>> THEN st
    ELSE LET power_str == strip_separators(Head(matches))
             power == to_int(power_str)
         IN  IF power = <<>> \/ ~labelled_accepts(power[1])
             THEN labelled_pass(Tail(matches), results, st)
             ELSE LET y_pos == labelled_y(power_str, results,
                                          st.used_y_positions, Len(st.powers))
                  IN  labelled_pass(Tail(matches), results,
                        [powers |-> Append(st.powers,
                                      [power |-> power[1],
                                       y_position |-> y_pos,
                                       pass |-> "labelled"]),
                         used_y_positions |-> st.used_y_positions \cup {y_pos},
                         found_powers |-> st.found_powers \cup {power[1]}])

\* for result in results  (the fallback for standalone numbers)
RECURSIVE fallback_pass(_, _)
fallback_pass(results, st) ==
    IF results = <<>> THEN st
    ELSE LET text == strip_separators(Head(results).text)
             power == to_int(text)
             y_pos == Head(results).y
             too_close == \E used_y \in st.used_y_positions :
                              Abs(y_pos - used_y) < 20
         IN  IF /\ fallback_pattern(text)
                /\ power # <<>>
                /\ fallback_accepts(power[1], st.found_powers)
                /\ ~too_close
             THEN fallback_pass(Tail(results),
                    [powers |-> Append(st.powers,
                                  [power |-> power[1],
                                   y_position |-> y_pos,
                                   pass |-> "fallback"]),
                     used_y_positions |-> st.used_y_positions \cup {y_pos},
                     found_powers |-> st.found_powers \cup {power[1]}])
             ELSE fallback_pass(Tail(results), st)

find_all_team_powers(img) ==
    LET st0 == [powers |-> <<>>, used_y_positions |-> {},
                found_powers |-> {}]
    IN  fallback_pass(img.results,
                      labelled_pass(img.matches, img.results, st0)).powers

\* The texts of at most n characters.
OcrTexts(n) == SeqsUpTo(OcrChars, n) \ {<<>>}

\* One row of the list in a frame: the number read after the label, the
\* number read as a text element of its own, or both.
OcrKinds == {"labelled", "standalone", "both"}

OcrFrame(text, kind) ==
    [matches |-> IF kind \in {"labelled", "both"} THEN <<text>> ELSE <<>>,
     results |-> IF kind \in {"standalone", "both"}
                 THEN <<[text |-> text, y |-> 165]>> ELSE <<>>]

InitOcr ==
    /\ pc = "ocr_start"
    /\ \E text \in OcrTexts(MaxTextLen), kind \in OcrKinds :
        /\ kind \in {"labelled", "both"} => is_group(text)
        /\ image = <<OcrFrame(text, kind)>>
    /\ team_powers = <<>>
    /\ pixel_frame = <<>>
    /\ availability = <<>>
    /\ game_rows = Rows
    /\ opponents = <<>>
    /\ scroll_count = 0
    /\ max_scroll_reached = 0
    /\ known_powers = {}
    /\ current_scroll_position = <<>>
    /\ last_bottom_powers = {}
    /\ consecutive_empty_scans = 0
    /\ up_i = 0
    /\ listLen = 0
    /\ physPos = 0
    /\ downGestures = 0
    /\ upGestures = 0
    /\ prevBand = {}
    /\ dup = <<>>
    /\ sameSeen = FALSE
    /\ BattleInit
    /\ RunInit
    /\ mode = "continuous"
    /\ max_battles = ARENA_MAX_BATTLES
    /\ effective_max_battles = max_battles
    /\ stop_requested = FALSE

\* One call of find_all_team_powers on the frame.
FindAllTeamPowers ==
    /\ pc = "ocr_start"
    /\ team_powers' = find_all_team_powers(image[1])
    /\ pc' = "ocr_done"
    /\ UNCHANGED <<image, pixel_frame, availability, game_rows, scanVars,
                   current_scroll_position, battleVars, runVars>>

NextOcr == FindAllTeamPowers

SpecOcr == InitOcr /\ [][NextOcr]_vars

(***************************************************************************)
(* Claims C21 .. C30                                                       *)
(***************************************************************************)
\* C21 as stated: every reading find_all_team_powers returns has a power
\* in the range 1,000 .. 999,999, from the labelled pass or the fallback
\* pass, whatever digit string OCR produced.
PowersInRange ==
    \A i \in 1..Len(team_powers) :
        /\ team_powers[i].power >= 1000
        /\ team_powers[i].power <= 999999

\* prepare_targets called again between two attacks of a cycle: reset(),
\* then the new Target List.
PrepareAgain ==
    /\ pc = "phase_loop"
    /\ \E weakest_first \in BOOLEAN, max_power \in MaxPowerInputs :
        sorted_targets' = prepare_targets(opponents, weakest_first, max_power)
    /\ current_target_index' = 0
    /\ battles_completed' = 0
    /\ list_valid' = TRUE
    /\ UNCHANGED <<pc, runVars, scanLocalVars, scroll_count,
                   current_scroll_position,
                   max_battles, last_attack_result, result, stop_requested,
                   args, tok, call>>
    /\ UNCHANGED ocrVars

NextResched == Next \/ PrepareAgain

\* The attack phase, with prepare_targets callable in the middle of it.
SpecResched == Init /\ [][NextResched]_vars

\* C22 as stated: a call of prepare_targets leaves the registry, the
\* target cursor, battles_completed and list_valid as they were before the
\* call.
SchedulingNoSideEffects ==
    [][((pc = "prepare" /\ pc' = "phase_start")
        \/ (pc = "phase_loop" /\ pc' = "phase_loop"
            /\ stop_requested' = stop_requested)) =>
        UNCHANGED <<opponents, current_target_index, battles_completed,
                    list_valid>>]_vars

\* The scroll distance between the tracked index at the entry of the call
\* and the target's recorded index.
NavDistance(c) == Abs(c.target[1].scroll_position - c.scroll)

\* C23: after scrolling |target index - current index| steps,
\* navigate_to_target makes at most 3 visibility checks and at most 4
\* corrective scrolls; when the target is visible in none of them,
\* attack_next_target returns 'skip' with the cursor advanced by one,
\* battles_completed unchanged and no battle or start-fight click.
NavigationBounded ==
    /\ []((call # <<>> /\ call[1].nav_checks > 0) =>
            LET c == call[1]
                extra == c.nav_scrolls - NavDistance(c)
            IN  /\ c.nav_checks <= 3
                /\ extra >= 0
                /\ extra <= 4
                /\ c.nav_checks = 1 => extra = 0
                /\ c.nav_checks = 2 => extra = 1
                /\ c.nav_checks = 3 => extra \in {3, 4})
    /\ [][(pc = "attack_navigate" /\ pc' = "attack_click_battle") =>
            /\ call'[1].nav_scrolls - NavDistance(call'[1]) \in {0, 1, 3}
            /\ UNCHANGED <<current_target_index, battles_completed>>]_vars
    /\ [][(pc = "attack_navigate" /\ pc' = "attack_ret") =>
            /\ call'[1].nav_checks = 3
            /\ call'[1].nav_scrolls = NavDistance(call'[1]) + 4
            /\ call'[1].clicks = 0
            /\ result' = "skip"
            /\ current_target_index' = current_target_index + 1
            /\ battles_completed' = battles_completed]_vars
    /\ [][(pc = "attack_navigate" /\ pc' # pc) =>
            pc' \in {"attack_click_battle", "attack_ret"}]_vars

\* C23 witness: a target recorded two steps down was looked for at three
\* places and given up.
NavigationBoundedWitness ==
    /\ pc = "attack_ret"
    /\ result = "skip"
    /\ call[1].nav_checks = 3
    /\ NavDistance(call[1]) = 2
    /\ call[1].nav_scrolls = 6
    /\ call[1].clicks = 0
    /\ current_target_index = call[1].cursor + 1
    /\ battles_completed = call[1].battles

\* C24: when the frame captured right before the click classifies the
\* target's row as unavailable, no battle-button click is issued:
\* click_battle_button returns false, attack_next_target returns 'skip',
\* the cursor advances by one and battles_completed is unchanged.
NoClickOnUnavailable ==
    /\ [][(/\ pc = "attack_click_battle"
           /\ pc' # pc
           /\ call'[1].battle_frame = "unavailable") =>
            /\ call'[1].clicks = call[1].clicks
            /\ result' = "skip"
            /\ pc' = "attack_ret"
            /\ current_target_index' = current_target_index + 1
            /\ battles_completed' = battles_completed]_vars
    /\ []((call # <<>> /\ call[1].battle_frame = "unavailable") =>
            call[1].clicks = 0)
    /\ []((call # <<>> /\ call[1].clicks > 0) =>
            call[1].battle_frame = "available")

\* C24 witness: a target scheduled as available was found, its row had
\* turned unavailable, and it was skipped without a click.
NoClickOnUnavailableWitness ==
    /\ pc = "attack_ret"
    /\ result = "skip"
    /\ call[1].battle_frame = "unavailable"
    /\ call[1].nav_checks > 0
    /\ call[1].clicks = 0
    /\ call[1].target[1].available
    /\ current_target_index = call[1].cursor + 1
    /\ battles_completed = call[1].battles

\* C26: click_return_arena makes at most max_attempts (5) attempts and
\* stops at the first that succeeds; when all fail, attack_next_target
\* returns 'skip' with list_valid unchanged, the cursor advanced by one,
\* battles_completed not incremented and the tracked scroll index not
\* reset.
ReturnArenaBounded ==
    /\ [](call # <<>> =>
            /\ call[1].return_attempts <= 5
            /\ call[1].return_clicks <= 1)
    /\ [][(pc = "attack_return_arena" /\ pc' # pc) =>
            IF call'[1].return_clicks = 0
            THEN /\ call'[1].return_attempts = 5
                 /\ result' = "skip"
                 /\ list_valid' = list_valid
                 /\ current_target_index' = current_target_index + 1
                 /\ battles_completed' = battles_completed
                 /\ scroll_count' = scroll_count
            ELSE /\ call'[1].return_attempts \in 1..5
                 /\ call'[1].return_clicks = 1
                 /\ result' = "success"]_vars

\* C26 witness: the battle of a target two steps down was fought, the
\* return button was not found in five attempts, and the tracked index
\* stayed where the navigation had left it.
ReturnArenaBoundedWitness ==
    /\ pc = "attack_ret"
    /\ result = "skip"
    /\ call[1].return_attempts = 5
    /\ call[1].return_clicks = 0
    /\ call[1].clicks = 3
    /\ scroll_count = 2
    /\ list_valid
    /\ current_target_index = call[1].cursor + 1
    /\ battles_completed = call[1].battles

\* C27: when attack_next_target returns 'success' the tracked scroll index
\* is 0, the cursor has advanced by exactly one and battles_completed has
\* increased by exactly one; on every other outcome battles_completed is
\* unchanged.
SuccessBookkeeping ==
    /\ []((pc = "attack_ret" /\ result = "success") =>
            /\ scroll_count = 0
            /\ current_target_index = call[1].cursor + 1
            /\ battles_completed = call[1].battles + 1)
    /\ []((pc = "attack_ret" /\ result # "success") =>
            battles_completed = call[1].battles)
    /\ [][battles_completed' = battles_completed + 1 =>
            (pc = "attack_return_arena" /\ result' = "success")]_vars

\* C27 witness: the second target of the cycle, recorded two steps down,
\* was fought and won.
SuccessBookkeepingWitness ==
    /\ pc = "attack_ret"
    /\ result = "success"
    /\ call[1].target[1].scroll_position = 2
    /\ call[1].nav_scrolls > 0
    /\ call[1].cursor > 0
    /\ scroll_count = 0
    /\ current_target_index = call[1].cursor + 1
    /\ battles_completed = call[1].battles + 1

\* The positions inside attack_next_target.
AttackPcs ==
    {"attack_entry", "attack_tokens", "attack_navigate",
     "attack_click_battle", "attack_start_fight", "attack_wait_complete",
     "attack_return_arena"}

\* C25: in the attack loop a 'skip' outcome ends neither the attack phase
\* nor the run: run_attack_phase goes on to the next target, and the phase
\* ends only on 'no_more', 'max_reached', 'list_invalid', 'no_tokens' or
\* the stop signal.
SkipContinues ==
    /\ [][(/\ mode = "continuous"
           /\ pc = "attack_ret"
           /\ result = "skip"
           /\ pc' # pc
           /\ ~raised') =>
            /\ pc' = "phase_loop"
            /\ UNCHANGED <<sorted_targets, current_target_index,
                           battles_completed, list_valid, ending, ret>>]_vars
    /\ [][(/\ mode = "continuous"
           /\ pc = "phase_loop"
           /\ ~stop_requested
           /\ pc' # pc
           /\ ~raised') =>
            pc' = "attack_entry"]_vars
    /\ [][(/\ mode = "continuous"
           /\ pc \in {"phase_loop", "attack_ret"}
           /\ pc' = "phase_done") =>
            \E why \in {"no_more", "max_reached", "list_invalid",
                        "no_tokens", "stopped"} :
                last_attack_result' = <<why>>]_vars
    /\ [][(mode = "continuous" /\ pc \in AttackPcs /\ pc' # pc /\ ~raised')
            => pc' \in AttackPcs \cup {"attack_ret"}]_vars

\* C25 witness: in one phase a target was skipped and a later target was
\* fought and won.
SkipContinuesWitness ==
    /\ mode = "continuous"
    /\ pc = "attack_ret"
    /\ result = "success"
    /\ call[1].cursor > call[1].battles
    /\ battles_completed = call[1].battles + 1

\* C30: a stop flag set while an attack attempt is in progress does not
\* cut the attempt short: the call runs to its outcome ('success' or
\* 'skip', with the cursor advance and the battles_completed increment),
\* attack_next_target never returns a stop outcome, the scan makes its
\* whole pass, and the stop takes effect only where the flag is sampled
\* (top of a cycle, before an attack, after the attack phase).
CooperativeStop ==
    /\ [][(stop_requested /\ pc \in AttackPcs /\ pc' # pc /\ ~raised') =>
            pc' \in AttackPcs \cup {"attack_ret"}]_vars
    /\ [](pc = "attack_ret" =>
            result \in {"success", "skip", "no_more", "max_reached",
                        "list_invalid", "no_tokens"})
    /\ []((pc = "attack_ret" /\ result = "success") =>
            /\ current_target_index = call[1].cursor + 1
            /\ battles_completed = call[1].battles + 1)
    /\ []((pc = "attack_ret" /\ result = "skip") =>
            /\ current_target_index = call[1].cursor + 1
            /\ battles_completed = call[1].battles)
    /\ [][(ending # "stopped" /\ ending' = "stopped") =>
            /\ stop_requested
            /\ pc \in {"run_cycle", "phase_loop", "phase_done"}]_vars
    /\ [][(stop_requested /\ pc = "run_scan" /\ pc' # pc /\ ~raised') =>
            (pc' = "run_scanned" /\ scanned')]_vars
    /\ [][(stop_requested /\ pc = "phase_loop" /\ pc' # pc /\ ~raised') =>
            (pc' = "phase_done" /\ result' = "stopped")]_vars

\* C30 witness: the flag was set after the sample that let the attempt
\* begin, and the attempt still fought and won its battle.
CooperativeStopWitness ==
    /\ mode = "continuous"
    /\ pc = "attack_ret"
    /\ stop_requested
    /\ ending = "none"
    /\ result = "success"
    /\ current_target_index = call[1].cursor + 1
    /\ battles_completed = call[1].battles + 1

ConfirmationScroll ==
    /\ [][(pc = "scan_band" /\ pc' # pc /\ prevBand' # {}
           /\ ~end_of_list(last_bottom_powers, prevBand')) =>
            IF prevBand' \subseteq known_powers
            THEN /\ pc' = "scan_confirm_scroll"
                 /\ last_bottom_powers' = prevBand'
                 /\ UNCHANGED <<opponents, known_powers, scroll_count>>
            ELSE pc' = "scan_loop"]_vars
    /\ [][(pc' = "scan_confirm_scroll" /\ pc # pc') => pc = "scan_band"]_vars
    /\ [][(pc = "scan_confirm_scroll" /\ pc' # pc) =>
            /\ pc' = "scan_confirm_band"
            /\ scroll_count' = scroll_count + 1
            /\ downGestures' = Bump(downGestures)
            /\ UNCHANGED <<opponents, known_powers, last_bottom_powers>>]_vars
    /\ [][(pc = "scan_confirm_band" /\ pc' # pc) =>
            IF prevBand' = last_bottom_powers
            THEN /\ pc' = "scan_after_loop"
                 /\ scroll_count' = scroll_count - 2
                 /\ UNCHANGED <<opponents, known_powers>>
            ELSE /\ pc' = "scan_loop"
                 /\ known_powers' = known_powers \cup prevBand'
                 /\ PowersOf(opponents') = known_powers'
                 /\ Len(opponents') = Len(opponents)
                       + Cardinality(prevBand' \ known_powers)
                 /\ SubSeq(opponents', 1, Len(opponents)) = opponents
                 /\ last_bottom_powers' = prevBand']_vars

\* C29 witness: a band of known powers that differed from the one before
\* was confirmed by the next capture, and the scan left its loop with the
\* two steps rolled back.
ConfirmationScrollWitness ==
    /\ pc = "scan_after_loop"
    /\ dup # <<>>
    /\ dup[1].kind = "confirm"
    /\ dup[1].idx = scroll_count + 2
    /\ scroll_count >= 1
    /\ Cardinality(known_powers) = 2

(***************************************************************************)
(* OpponentScanner.check_battle_available                                  *)
(***************************************************************************)
\* ARENA_BATTLE_BUTTON_X = 0.90, in hundredths
ARENA_BATTLE_BUTTON_X_PCT == 90

\* sample_width = 40
SAMPLE_WIDTH == 40

\* y_start = y_position - 80
SAMPLE_ABOVE == 80

\* y_end = y_position + 20
SAMPLE_BELOW == 20

\* is_available = orange_ratio > 0.15, in hundredths
ORANGE_RATIO_PCT == 15

\* The number of elements of a[start:stop] for a of length n: a negative
\* bound counts from the end, a bound past the end is the end.
SliceLen(start, stop, n) ==
    LET norm(i) == IF i < 0 THEN Max(0, i + n) ELSE Min(i, n)
    IN  Max(0, norm(stop) - norm(start))

\* The pixels of the sample region frame[y_start:y_end, x_start:x_end].
sample_pixels(height, width, y_position) ==
    LET button_x == (width * ARENA_BATTLE_BUTTON_X_PCT) \div 100
        x_start == Max(0, button_x - SAMPLE_WIDTH \div 2)
        x_end == Min(width, button_x + SAMPLE_WIDTH \div 2)
        y_start == Max(0, y_position - SAMPLE_ABOVE)
        y_end == Min(height, y_position + SAMPLE_BELOW)
    IN  SliceLen(y_start, y_end, height) * SliceLen(x_start, x_end, width)

\* check_battle_available, given the orange pixels counted in the sample
\* region: an empty region is taken as available.
check_battle_available(total_pixels, orange_pixel_count) ==
    IF total_pixels = 0 THEN TRUE
    ELSE orange_pixel_count * 100 > ORANGE_RATIO_PCT * total_pixels

\* Frame heights and widths, in pixels.
FrameHeights == {100, 240}

FrameWidths == {30, 200}

\* Row positions handed in: stored, re-read or estimated from the order.
RowPositions == {y * 10 : y \in -12..36}

\* Orange counts looked at for a region of n pixels: none, all, and the
\* counts around the threshold.
OrangeCounts(n) ==
    {0, n} \cup {k \in 0..n : k * 100 - ORANGE_RATIO_PCT * n \in -200..200}

InitAvail ==
    /\ pc = "avail_start"
    /\ \E height \in FrameHeights, width \in FrameWidths,
          y_position \in RowPositions :
        \E orange \in OrangeCounts(sample_pixels(height, width, y_position)) :
            pixel_frame = <<[height |-> height, width |-> width,
                             y_position |-> y_position, orange |-> orange]>>
    /\ availability = <<>>
    /\ game_rows = Rows
    /\ image = <<>>
    /\ team_powers = <<>>
    /\ opponents = <<>>
    /\ scroll_count = 0
    /\ max_scroll_reached = 0
    /\ known_powers = {}
    /\ current_scroll_position = <<>>
    /\ last_bottom_powers = {}
    /\ consecutive_empty_scans = 0
    /\ up_i = 0
    /\ listLen = 0
    /\ physPos = 0
    /\ downGestures = 0
    /\ upGestures = 0
    /\ prevBand = {}
    /\ dup = <<>>
    /\ sameSeen = FALSE
    /\ BattleInit
    /\ RunInit
    /\ mode = "continuous"
    /\ max_battles = ARENA_MAX_BATTLES
    /\ effective_max_battles = max_battles
    /\ stop_requested = FALSE

\* One call of check_battle_available(frame, y_position).
CheckBattleAvailable ==
    /\ pc = "avail_start"
    /\ LET f == pixel_frame[1]
           total == sample_pixels(f.height, f.width, f.y_position)
       IN  availability' =
               <<[value |-> check_battle_available(total, f.orange),
                  orange |-> f.orange,
                  total |-> total]>>
    /\ pc' = "avail_done"
    /\ UNCHANGED <<image, team_powers, pixel_frame, game_rows, scanVars,
                   current_scroll_position, battleVars, runVars>>

NextAvail == CheckBattleAvailable

SpecAvail == InitAvail /\ [][NextAvail]_vars

(***************************************************************************)
(* Claims C31 .. C39                                                       *)
(***************************************************************************)
\* C31 as stated: a row is classified available exactly when strictly more
\* than 15% of the pixels of its sample window are orange
\* (count_orange * 100 > 15 * total_pixels), for every row position.
AvailableIffOrange ==
    availability # <<>> =>
        (availability[1].value <=>
            availability[1].orange * 100 > 15 * availability[1].total)

\* A long list of three opponents, every battle button orange.
WideRows == [power : Powers, available : {TRUE}]

\* run_full_scan is entered against that list.
InitScanWide ==
    /\ pc = "scan_start"
    /\ opponents = <<>>
    /\ scroll_count = 0
    /\ max_scroll_reached = 0
    /\ known_powers = {}
    /\ current_scroll_position = <<>>
    /\ last_bottom_powers = {}
    /\ consecutive_empty_scans = 0
    /\ up_i = 0
    /\ listLen = MaxListLen
    /\ physPos = 0
    /\ downGestures = 0
    /\ upGestures = 0
    /\ prevBand = {}
    /\ dup = <<>>
    /\ sameSeen = FALSE
    /\ BattleInit
    /\ RunInit
    /\ OcrIdle
    /\ game_rows = WideRows
    /\ mode = "continuous"
    /\ max_battles = ARENA_MAX_BATTLES
    /\ effective_max_battles = max_battles
    /\ stop_requested = FALSE

SpecScanWide == InitScanWide /\ [][NextScan]_vars

\* C32: the registry of a scan is ordered by scroll position: of any two
\* entries the earlier one has a scroll_position less than or equal to
\* that of the later one, whatever the captures show.
RegistryOrdered ==
    \A i, j \in 1..Len(opponents) :
        i < j => opponents[i].scroll_position <= opponents[j].scroll_position

\* C32 witness: the scan has returned three entries: one of the top
\* capture, one registered by a confirmation capture that did not confirm
\* the end of the list, and one registered by a later band.
RegistryOrderedWitness ==
    /\ ScanDone
    /\ Len(opponents) = 3
    /\ opponents[1].scroll_position = 0
    /\ opponents[2].scroll_position = 2
    /\ opponents[3].scroll_position = 2
    /\ downGestures >= 3

\* C33 as stated: when run_full_scan returns, every registry entry has
\* scroll_position <= max_scroll_reached <= ARENA_MAX_SCROLL_ATTEMPTS.
MaxScrollCoversRegistry ==
    ScanDone =>
        /\ max_scroll_reached <= ARENA_MAX_SCROLL_ATTEMPTS
        /\ \A i \in 1..Len(opponents) :
              opponents[i].scroll_position <= max_scroll_reached

\* C36 as stated: every registered reading's scroll_position equals the
\* number of scroll-down gestures issued since the start of the scan when
\* its frame was captured.
ScrollPositionIsGestureCount ==
    [][\A i \in (Len(opponents) + 1)..Len(opponents') :
          opponents'[i].scroll_position = downGestures]_vars

(***************************************************************************)
(* Claims about the tracked scroll index around an attack and the cursor.  *)
(***************************************************************************)
\* C34 as stated: a navigate_to_target that fails returns with the tracked
\* scroll index equal to the target's recorded scroll_position.
FailedNavigationRestoresIndex ==
    [][(pc = "attack_navigate" /\ pc' = "attack_ret")
          => scroll_count' = CurrentTarget.scroll_position]_vars

\* The calls of attack_next_target and the loop position around them.
PhasePcs == AttackPcs \cup {"phase_start", "phase_loop", "attack_entry",
                            "attack_ret"}

\* The outcomes of attack_next_target that move the cursor.
Advancing == {"success", "skip"}

\* A step of the attack phase: the Target List stays, the cursor stays or
\* moves one forward.
CursorStep ==
    pc \in PhasePcs =>
        /\ sorted_targets' = sorted_targets
        /\ current_target_index' >= current_target_index
        /\ current_target_index' <= current_target_index + 1

\* C35: in every state 0 <= battles_completed <= current_target_index <=
\* len(sorted_targets); during the attack phase sorted_targets is not
\* modified and the cursor never decreases; when attack_next_target
\* returns, the cursor is one above its value at the call for 'success' and
\* 'skip' and equal to it for 'no_more', 'max_reached', 'list_invalid' and
\* 'no_tokens', so no target is attempted twice in a cycle.
CursorDiscipline ==
    /\ [](/\ 0 <= battles_completed
          /\ battles_completed <= current_target_index
          /\ current_target_index <= Len(sorted_targets))
    /\ [](pc = "attack_ret" =>
             current_target_index =
                 call[1].cursor + (IF result \in Advancing THEN 1 ELSE 0))
    /\ [][CursorStep]_vars

\* Witness: a call returns 'skip' on the second target after a success on
\* the first one.
CursorDisciplineWitness ==
    /\ pc = "attack_ret"
    /\ result = "skip"
    /\ call[1].cursor = 1
    /\ current_target_index = 2
    /\ battles_completed = 1
    /\ Len(sorted_targets) = 2

\* C37 as stated: when the battle-button click is issued, the tracked scroll
\* index is the target's recorded scroll_position.
ClickAtRecordedIndex ==
    [][(pc = "attack_click_battle" /\ pc' = "attack_start_fight")
          => scroll_count = CurrentTarget.scroll_position]_vars

\* C38 as stated: in continuous mode run_full_scan is entered with a
\* tracked scroll index that is already 0.
ScanStartsAtTop ==
    [][(mode = "continuous" /\ pc = "run_scan" /\ pc' = "run_scanned")
          => scroll_count = 0]_vars

(***************************************************************************)
(* Claims about what run does between an attack phase and the next scan.   *)
(***************************************************************************)
\* The attack phase of the cycle has ended without the stop signal and
\* without 'no_tokens'.
PhaseGoesOn ==
    /\ mode = "continuous"
    /\ cycle_log # <<>>
    /\ cycle_log[1].step = "phase"
    /\ cycle_log[1].value \notin {"stopped", "no_tokens"}

\* What cycle_log holds after such a phase: the check_needs_refresh
\* sample, then one token check, then, unless it reported 'no_tokens', one
\* click_refresh_list that looks for the free button first and for the paid
\* one only when the free one was not found.
RefreshLogShape ==
    LET n == Len(cycle_log)
    IN  /\ n <= 4
        /\ n >= 2 => cycle_log[2].step = "check"
        /\ n >= 3 => cycle_log[3].step = "tokens"
        /\ n = 4 => /\ cycle_log[4].step = "refresh"
                    /\ cycle_log[3].value # "no_tokens"
                    /\ cycle_log[4].value \in RefreshOutcomes
                    /\ cycle_log[4].searches[1] = "free"
                    /\ ("paid" \in Range(cycle_log[4].searches))
                           <=> (cycle_log[4].value # "free")
        /\ (n = 3 /\ cycle_log[3].value = "no_tokens")
               => pc \in {"run_home", "run_done"}
        /\ pc = "run_cycle" => n = 4

\* C39: in continuous mode an attack phase that ends without the stop
\* signal and without 'no_tokens' is followed by one token check and,
\* unless that check reports 'no_tokens', by exactly one refresh attempt
\* (free first, paid only if the free button is not found) before the next
\* scan, whatever check_needs_refresh returned and whatever the phase's
\* last result was; only an exception in one of these steps cuts it short.
RefreshAfterPhase ==
    /\ [](PhaseGoesOn => RefreshLogShape)
    /\ (PhaseGoesOn /\ Len(cycle_log) = 1)
           ~> (raised \/ (PhaseGoesOn /\ Len(cycle_log) >= 3))
    /\ (PhaseGoesOn /\ Len(cycle_log) = 3
            /\ cycle_log[3].value # "no_tokens")
           ~> (raised \/ (PhaseGoesOn /\ Len(cycle_log) = 4))

\* Witness: the phase ended on 'max_reached' with targets left,
\* check_needs_refresh returned False, and the paid refresh was clicked
\* before the next scan.
RefreshAfterPhaseWitness ==
    /\ pc = "run_cycle"
    /\ PhaseGoesOn
    /\ cycle_log[1].value = "max_reached"
    /\ current_target_index < Len(sorted_targets)
    /\ cycle_log[2].value = "all_defeated"
    /\ cycle_log[4].value = "paid"

=============================================================================
